---- MODULE Spec2Model ----
(***************************************************************************)
(* Business-Insight-Pro: the adaptive data-understanding layer.            *)
(*   - insight client (genai_client.py): cache, retries, model fallback,   *)
(*     generate_insights and the sentiment, question and profile tasks     *)
(*   - analysis dispatcher (analysis/__init__.py) and its handlers         *)
(*   - analytics engine (unified_analytics_engine.py): analyze_data        *)
(*   - domain classifier and column mapper (smart_analytics_engine.py)     *)
(*   - capability gate (config.py)                                         *)
(* Text is a sequence of chunks (strings); the empty text is << >>.        *)
(***************************************************************************)
EXTENDS Integers, Sequences, FiniteSets, TLC

VARIABLES
    cache,      \* GenAIClient.cache: key -> [time, text]
    now,        \* time.time()
    ncalls,     \* number of client calls started so far
    pc,         \* position of the running client call: "call"/"done" for
                \* generate_insights, "task"/"task_done" for the tasks
    req,        \* arguments of the running call and its lookup time
    cacheKey,   \* cache_key computed by the running call
    cacheAtStart,   \* self.cache as the running call found it
    modelIdx,   \* index in models_to_try of the model being tried
    attempt,    \* attempt number inside _call_model
    invLog,     \* the model invocations of the running call, in order:
                \* [model, ok], ok = it returned non-empty text
    ret,        \* what the call returned or raised
    caller,     \* who called the client: "direct", "custom", "handler",
                \* "engine", or the name of the running task method
    last,       \* an earlier completed generate_insights call made by
                \* application code (any one since the cache was cleared)
    disp,       \* the running run_analysis_for_question call and its outcome
    mcols,      \* df.columns of the uploaded dataset
    mpc,        \* "loaded", "detected" or "mapped"
    mtype,      \* business type returned by detect_business_type
    mconf,      \* its confidence, the fraction <<score, total_patterns>>
    mfor,       \* business type auto_map_columns was called with
    mapping,    \* mapping returned by auto_map_columns
    tier_domain,    \* domain_key given to determine_analysis_tier
    tier_fields,    \* available_fields given to it
    tier,           \* the tier it returned
    tpc,            \* "ready" before the call, "done" after it; for
                    \* analyze_data "insights" while it waits for the
                    \* insight client, then "analyzed" or "raised"
    tier_mapping,   \* mapping given to analyze_data: canonical -> raw name
    tier_arg,       \* tier given to analyze_data ("" = None)
    tier_frame,     \* the frame given to analyze_data
    engine_results, \* what analyze_data returned or raised
    engine_cache,   \* UnifiedAnalyticsEngine.cache: cache_key -> results
    profile_cache,  \* AdvancedDataProfiler.profile_cache: profile_id -> profile
    pclock,         \* datetime.now()
    plog,           \* the create_comprehensive_profile calls made so far:
                    \* [df, business_type, profile, computed]
    qframe,         \* the frame given to _assess_data_quality
    quality,        \* what it returned
    qpc,            \* "ready" before the call, "done" after it
    oseries,        \* the series given to _count_outliers
    ocount,         \* what it returned
    opc,            \* "ready" before the call, "counted" after it
    uploaded,       \* st.session_state.uploaded_data ("" = none)
    datagenie,      \* st.session_state.datagenie exists
    ss_context,     \* st.session_state.datagenie_context (NoProfile = absent)
    ss_has_history, \* 'datagenie_history' in st.session_state
    ss_history,     \* st.session_state.datagenie_history
    ss_initialized, \* 'datagenie_initialized' in st.session_state
    genie_data_context,     \* DataGenieChatbot.data_context (NoProfile = {})
    conversation_history,   \* DataGenieChatbot.conversation_history
    shared,         \* the two histories are one list object
    init_args,      \* arguments of the last initialize_session call
    chat_pc         \* "off", "idle", "uploaded" (the chat page was not
                    \* rendered since the upload) or "ready"

clientVars == <<cache, now, ncalls, pc, req, cacheKey, cacheAtStart,
                modelIdx, attempt, invLog, ret, caller, last, disp>>

mapVars == <<mcols, mpc, mtype, mconf, mfor, mapping>>

tierVars == <<tier_domain, tier_fields, tier, tpc, tier_mapping, tier_arg,
              tier_frame, engine_results, engine_cache>>

profVars == <<profile_cache, pclock, plog>>

qualVars == <<qframe, quality, qpc>>

outVars == <<oseries, ocount, opc>>

chatVars == <<uploaded, datagenie, ss_context, ss_has_history, ss_history,
              ss_initialized, genie_data_context, conversation_history,
              shared, init_args, chat_pc>>

vars == <<clientVars, mapVars, tierVars, profVars, qualVars, outVars,
          chatVars>>

None == "None"

(* ------------------------------ bounds --------------------------------- *)
MaxCalls == 2
MaxCols == 3
MaxProfiles == 3
MaxNulls == 9
MaxDups == 3
MaxOutliers == 3
MaxSeries == 5
MaxHistory == 4

(* --------------------------- GenAIClient ------------------------------- *)
cache_ttl == 3600
retries == 2

ModelKeys == {"primary", "secondary", "fallback"}

ModelId(model_key) ==
    CASE model_key = "primary" -> "openai/gpt-oss-20b:free"
      [] model_key = "secondary" -> "deepseek/deepseek-chat-v3.1:free"
      [] model_key = "fallback" -> "mistralai/mistral-7b-instruct:free"

\* self.business_context: the domains the prompt builder knows
BusinessContextDomains == {"retail", "real_estate"}

DomainKnowledge(domain) ==
    CASE domain = "retail" -> "retail e-commerce business"
      [] domain = "real_estate" -> "real estate market"

\* str.title() on a domain name: every run of letters gets a capital
Title(domain) ==
    CASE domain = "retail" -> "Retail"
      [] domain = "real_estate" -> "Real_Estate"
      [] domain = "retail_ecommerce" -> "Retail_Ecommerce"
      [] domain = "restaurant" -> "Restaurant"
      [] domain = "restaurant_food" -> "Restaurant_Food"
      [] domain = "healthcare" -> "Healthcare"
      [] domain = "education" -> "Education"
      [] domain = "general_business" -> "General_Business"
      [] domain = "general" -> "General"

(* JSON values: numbers (nan is the value of type "nan"), strings, lists,  *)
(* dicts (type "dict", the values in key order), and objects json cannot  *)
(* encode                                                                  *)
Num(n) == [t |-> "num", v |-> <<n>>]
Str(s) == [t |-> "str", v |-> <<s>>]
Obj == [t |-> "obj", v |-> << >>]
List(vs) == [t |-> "list", v |-> vs]

\* json.dumps raises TypeError on an object it cannot encode
Serializable(value) ==
    CASE value.t = "obj" -> FALSE
      [] value.t \in {"list", "dict"} ->
            \A i \in 1..Len(value.v) : value.v[i].t # "obj"
      [] OTHER -> TRUE

JsonDumps(data) ==
    IF \A k \in DOMAIN data : Serializable(data[k])
    THEN [kind |-> "ok", val |-> <<"json", data>>, exc |-> ""]
    ELSE [kind |-> "raise", val |-> << >>, exc |-> "TypeError"]

\* _build_consistent_prompt: the base instructions index business_context
\* by the domain (KeyError), a known task type adds its own text with the
\* dumped data and the titled domain, any other gets the base alone
BuildConsistentPrompt(task_type, data_context, domain) ==
    IF domain \notin BusinessContextDomains
    THEN [kind |-> "raise", val |-> << >>, exc |-> "KeyError"]
    ELSE IF task_type \notin {"insights_generation", "sentiment_analysis",
                               "question_generation", "data_profiling"}
    THEN [kind |-> "ok", exc |-> "", val |-> <<DomainKnowledge(domain)>>]
    ELSE LET js == JsonDumps(data_context) IN
         IF js.kind = "raise" THEN js
         ELSE [kind |-> "ok", exc |-> "",
               val |-> <<DomainKnowledge(domain), task_type, js.val,
                         Title(domain)>>]

\* _get_cache_key: md5 of "prompt|model_id|context", taken as collision free
GetCacheKey(prompt, model_id, context) == <<prompt, model_id, context>>

\* a validity test that still accepts an entry aged exactly the TTL
FreshInclusive(cached_time, t) == t - cached_time <= cache_ttl

\* the validity test of _get_cached_response
Fresh(cached_time, t) == t - cached_time < cache_ttl

\* a lookup that renews the timestamp of the entry it hits
GetCachedTouch(c, cache_key, t) ==
    IF cache_key \in DOMAIN c
    THEN IF Fresh(c[cache_key].time, t)
         THEN [resp |-> c[cache_key].text, hit |-> TRUE,
               cache |-> [c EXCEPT ![cache_key].time = t]]
         ELSE [resp |-> << >>, hit |-> FALSE,
               cache |-> [k \in DOMAIN c \ {cache_key} |-> c[k]]]
    ELSE [resp |-> << >>, hit |-> FALSE, cache |-> c]

\* _get_cached_response: the response (None on a miss) and the cache after it
GetCachedResponse(c, cache_key, t) ==
    IF cache_key \in DOMAIN c
    THEN IF Fresh(c[cache_key].time, t)
         THEN [resp |-> c[cache_key].text, hit |-> TRUE, cache |-> c]
         ELSE [resp |-> << >>, hit |-> FALSE,
               cache |-> [k \in DOMAIN c \ {cache_key} |-> c[k]]]
    ELSE [resp |-> << >>, hit |-> FALSE, cache |-> c]

\* _cache_response
CacheResponseDropped(c, cache_key, response, t) == c

\* a store that stamps the entry with the start of the clock
CacheResponseUnstamped(c, cache_key, response, t) ==
    [k \in DOMAIN c \cup {cache_key} |->
        IF k = cache_key THEN [time |-> 0, text |-> response] ELSE c[k]]

CacheResponse(c, cache_key, response, t) ==
    [k \in DOMAIN c \cup {cache_key} |->
        IF k = cache_key THEN [time |-> t, text |-> response] ELSE c[k]]

\* the model chosen for the question type
PrimaryModel(question_type) ==
    IF question_type \in {"sentiment", "chart_interpretation"} THEN "primary"
    ELSE IF question_type \in {"reasoning", "custom_analysis"} THEN "secondary"
    ELSE "primary"

ModelsToTryLoop(question_type) ==
    <<PrimaryModel(question_type), "secondary", "fallback", "primary">>

ModelsToTry(question_type) ==
    <<PrimaryModel(question_type), "secondary", "fallback">>

\* str.strip() on a text whose whitespace chunks are " " and "\n"
RECURSIVE LStrip(_)
LStrip(s) ==
    IF s # << >> /\ Head(s) \in {" ", "\n"} THEN LStrip(Tail(s)) ELSE s

RECURSIVE RStrip(_)
RStrip(s) ==
    IF s # << >> /\ s[Len(s)] \in {" ", "\n"}
    THEN RStrip(SubSeq(s, 1, Len(s) - 1)) ELSE s

Strip(s) == RStrip(LStrip(s))

\* str.lower() on one character: a capital letter becomes its small letter,
\* every other character (small letters, digits, space, _) is kept
LowerChar(c) ==
    CASE c = "T" -> "t" [] c = "D" -> "d" [] c = "S" -> "s" [] c = "K" -> "k"
      [] c = "U" -> "u" [] c = "O" -> "o" [] c = "C" -> "c" [] c = "A" -> "a"
      [] c = "B" -> "b" [] c = "E" -> "e" [] c = "F" -> "f" [] c = "G" -> "g"
      [] c = "H" -> "h" [] c = "I" -> "i" [] c = "J" -> "j" [] c = "L" -> "l"
      [] c = "M" -> "m" [] c = "N" -> "n" [] c = "P" -> "p" [] c = "Q" -> "q"
      [] c = "R" -> "r" [] c = "V" -> "v" [] c = "W" -> "w" [] c = "X" -> "x"
      [] c = "Y" -> "y" [] c = "Z" -> "z"
      [] OTHER -> c

Lower(s) == [i \in 1..Len(s) |-> LowerChar(s[i])]

\* `pattern in text`; for a pattern of plain letters also re.search(pattern, text)
Contains(pattern, text) ==
    \E i \in 0..(Len(text) - Len(pattern)) :
        SubSeq(text, i + 1, i + Len(pattern)) = pattern

\* _get_fallback_insights: the text depends on the domain only
FallbackEmpty(analysis_data, domain) == << >>

GetFallbackInsights(analysis_data, domain) ==
    <<"Business Insights Summary: patterns in your ", domain,
      " business performance">>

(* ------------- the three task methods of the insight client ----------- *)
\* analyze_sentiment, generate_questions, profile_data: the prompt's task
\* type, the one model each calls and the prefix of its cache context
TaskNames == {"analyze_sentiment", "generate_questions", "profile_data"}

TaskOf(method) ==
    CASE method = "analyze_sentiment" ->
            [task_type |-> "sentiment_analysis", model |-> "primary",
             context |-> "sentiment"]
      [] method = "generate_questions" ->
            [task_type |-> "question_generation", model |-> "secondary",
             context |-> "questions"]
      [] method = "profile_data" ->
            [task_type |-> "data_profiling", model |-> "secondary",
             context |-> "profile"]

\* str.split(sep): the pieces of a text between its sep chunks
RECURSIVE Split(_, _)
Split(s, sep) ==
    IF \A i \in 1..Len(s) : s[i] # sep THEN <<s>>
    ELSE LET i == CHOOSE i \in 1..Len(s) :
                     s[i] = sep /\ \A j \in 1..(i - 1) : s[j] # sep
         IN <<SubSeq(s, 1, i - 1)>> \o Split(SubSeq(s, i + 1, Len(s)), sep)

\* [q.strip() for q in response.split('\n') if q.strip()]
SplitLines(response) ==
    LET parts == Split(response, "\n")
    IN SelectSeq([i \in 1..Len(parts) |-> Strip(parts[i])],
                 LAMBDA q : q # << >>)

\* the elements of a list written out, "," between two elements (with
\* [ before and ] after, json.dumps of a list of strings)
RECURSIVE JoinItems(_)
JoinItems(items) ==
    IF items = << >> THEN << >>
    ELSE IF Len(items) = 1 THEN items[1]
    ELSE items[1] \o <<",">> \o JoinItems(Tail(items))

\* json.loads on a text whose JSON punctuation is the chunks [ ] { } and ,
\* a text that is not bracketed is not JSON (ValueError)
JsonLoads(text) ==
    IF Len(text) >= 2 /\ text[1] = "[" /\ text[Len(text)] = "]"
    THEN [kind |-> "list",
          val |-> IF Len(text) = 2 THEN << >>
                  ELSE Split(SubSeq(text, 2, Len(text) - 1), ",")]
    ELSE IF Len(text) >= 2 /\ text[1] = "{" /\ text[Len(text)] = "}"
    THEN [kind |-> "dict", val |-> <<SubSeq(text, 2, Len(text) - 1)>>]
    ELSE [kind |-> "error", val |-> << >>]

\* a returned value: a text as it is, a list or a dict as its elements
Returned(kind, val, src) ==
    [kind |-> kind, exc |-> "", src |-> src,
     text |-> IF kind = "text" THEN val ELSE JoinItems(val)]

\* _get_fallback_sentiment_analysis, _get_fallback_questions and
\* _get_fallback_data_profile
TaskFallback(method, domain) ==
    CASE method = "analyze_sentiment" ->
            Returned("text", <<"Customer Sentiment Overview: Enhanced ",
                               "sentiment analysis is temporarily unavailable">>,
                     "fallback")
      [] method = "generate_questions" ->
            Returned("list",
                     IF domain = "retail"
                     THEN <<<<"What are the top-performing products by revenue?">>,
                            <<"How has customer acquisition changed over time?">>,
                            <<"What is the average order value trend?">>,
                            <<"Which sales channels are most effective?">>,
                            <<"What is the customer retention rate?">>>>
                     ELSE <<<<"What are the top-performing locations by sales value?">>,
                            <<"How have property prices changed over time?">>,
                            <<"What is the average time on market?">>,
                            <<"Which agents have the best performance?">>,
                            <<"What is the market trend analysis?">>>>,
                     "fallback")
      [] method = "profile_data" ->
            Returned("dict",
                     <<<<"mapping_suggestions">>,
                       <<"quality_assessment",
                         "Data quality analysis completed with basic checks.">>,
                       <<"recommendations",
                         "Ensure all required fields are mapped",
                         "Check for missing values in key columns",
                         "Verify data types are appropriate">>>>,
                     "fallback")

\* the contents a model gives a task: nothing, plain text (one line, or
\* lines with a blank one between), a JSON list, a JSON object
TaskContents(method) ==
    CASE method = "analyze_sentiment" -> {<< >>, <<" ", "a">>}
      [] method = "generate_questions" ->
            {<< >>, <<"[", "q", "]">>, <<"{", "}">>,
             <<"q", "\n", " ", "\n", "r">>}
      [] method = "profile_data" -> {<< >>, <<"{", "}">>, <<"q">>}

(* What one chat.completions.create call can do: raise, or give a message  *)
(* whose content is None or a string.                                      *)
RawContents == {<< >>, <<" ">>, <<"a">>, <<" ", "b", " ">>}

ApiOutcomes ==
    {[kind |-> "raise", content |-> << >>],
     [kind |-> "none", content |-> << >>]}
    \cup {[kind |-> "content", content |-> c] : c \in RawContents}

NoReq == [data |-> << >>, domain |-> "", qt |-> "", at |-> 0]
NoRet == [kind |-> "none", text |-> << >>, exc |-> "", src |-> ""]
NoLast == [valid |-> FALSE, req |-> NoReq, ret |-> NoRet, n |-> 0]
NoDisp == [qid |-> "", kind |-> "none", summary |-> << >>, exc |-> "",
           handler |-> "", via |-> ""]

(* ------------------------- analysis dispatcher ------------------------- *)
\* QUESTION_REGISTRY: the ids the analysis modules register under, with the
\* parameters each handler takes after df and whether it takes **kwargs
RegisteredIds ==
    {"avg_order_value", "basket_analysis", "bottom_products",
     "churn_prediction", "custom_question", "customer_clusters",
     "price_elasticity", "product_returns", "profit_margin",
     "promo_effectiveness", "repeat_customers", "return_rate",
     "rfm_segmentation", "sales_by_channel", "sales_by_location",
     "sales_forecast", "sales_trend", "seasonality", "sentiment_analysis",
     "stockout_risk", "top_products"}

HandlerParams(qid) ==
    IF qid = "custom_question" THEN {"question", "domain"} ELSE {}

HandlerVarKw(qid) == qid = "churn_prediction"

RegistryIndex(qid) == IF qid \in RegisteredIds THEN qid ELSE "KeyError"

\* QUESTION_REGISTRY.get(qid)
RegistryGet(qid) == IF qid \in RegisteredIds THEN qid ELSE None

\* fn(df, **kw): Python binds the keywords to the handler's parameters and
\* raises TypeError on a missing or an unexpected argument
Binds(qid, kw) ==
    /\ HandlerParams(qid) \subseteq kw
    /\ (kw \subseteq HandlerParams(qid) \/ HandlerVarKw(qid))

\* `name in df.columns`
HasColumn(df, name) == \E i \in 1..Len(df.cols) : df.cols[i] = name

\* what the body of a handler does: it returns {summary, fig, table}, it
\* raises, or it goes on to the insight client with its data ("client":
\* generate_business_insights, "task": analyze_customer_sentiment)
Result(summary) ==
    [kind |-> "result", summary |-> summary, exc |-> "", data |-> << >>]

\* sales_trend_question: the first column whose name holds 'date', else
\* the first column (IndexError on a frame without columns); the rows
\* whose date does not parse and whose Amount is not positive are dropped
SalesTrendQuestion(df) ==
    LET date_cols == SelectSeq(df.cols,
                         LAMBDA col : Contains(<<"d", "a", "t", "e">>,
                                               Lower(col)))
        date_col == IF date_cols # << >> THEN date_cols[1] ELSE df.cols[1]
    IN
    IF date_cols = << >> /\ df.cols = << >>
    THEN [kind |-> "raise", summary |-> << >>, exc |-> "IndexError",
          data |-> << >>]
    ELSE IF ~HasColumn(df, <<"A", "m", "o", "u", "n", "t">>)
    THEN Result(<<"Column Amount is missing">>)
    ELSE IF date_col \notin df.dates \/ df.value <= 0
    THEN Result(<<"No valid data available for trend analysis">>)
    ELSE Result(<<"Sales Trend Analysis">>)

\* bottom_products_question
BottomProductsQuestion(df) ==
    IF ~ (HasColumn(df, <<"P", "r", "o", "d", "u", "c", "t">>)
          /\ HasColumn(df, <<"A", "m", "o", "u", "n", "t">>))
    THEN Result(<<"Required columns Product and Amount are missing">>)
    ELSE Result(<<"Bottom Products by Revenue">>)

\* churn_question on a frame of at most 3 rows (so every column has at
\* most 3 values, and there are fewer than 10 rows to train on): the
\* target is a column named after churn, else any column but the excluded
ChurnQuestion(df) ==
    LET churn_keywords ==
            {<<"c", "h", "u", "r", "n">>, <<"i", "s", "_", "c", "h", "u", "r", "n">>,
             <<"c", "h", "u", "r", "n", "e", "d">>, <<"e", "x", "i", "t", "e", "d">>,
             <<"l", "e", "f", "t">>, <<"a", "t", "t", "r", "i", "t", "i", "o", "n">>,
             <<"c", "a", "n", "c", "e", "l">>,
             <<"c", "a", "n", "c", "e", "l", "l", "e", "d">>,
             <<"c", "l", "o", "s", "e", "d">>, <<"l", "o", "s", "t">>,
             <<"i", "n", "a", "c", "t", "i", "v", "e">>}
        excluded ==
            {<<"p", "r", "o", "d", "u", "c", "t">>,
             <<"c", "u", "s", "t", "o", "m", "e", "r", "i", "d">>,
             <<"d", "a", "t", "e">>, <<"a", "m", "o", "u", "n", "t">>,
             <<"p", "r", "i", "c", "e">>, <<"c", "o", "s", "t">>}
        named == SelectSeq(df.cols,
                     LAMBDA col : \E kw \in churn_keywords :
                                     Contains(kw, Lower(col)))
        others == SelectSeq(df.cols, LAMBDA col : Lower(col) \notin excluded)
    IN
    IF named = << >> /\ others = << >>
    THEN Result(<<"No binary churn column found">>)
    ELSE Result(<<"Not enough data to train a churn model">>)

\* top_products_question up to its call of the insight client; the frame
\* has one product; numpy's sum of the amounts is a float for json when
\* the column is float64 and an object json cannot encode when int64
TopProductsQuestion(df) ==
    IF ~ (HasColumn(df, <<"P", "r", "o", "d", "u", "c", "t">>)
          /\ HasColumn(df, <<"A", "m", "o", "u", "n", "t">>))
    THEN Result(<<"Missing required columns: Product and Amount">>)
    ELSE IF df.value <= 0
    THEN Result(<<"No valid sales data found">>)
    ELSE [kind |-> "client", summary |-> << >>, exc |-> "",
          data |-> [analysis_type |-> Str("top_products"),
                    total_products_analyzed |-> Num(1),
                    total_revenue |-> IF df.dtype = "float64"
                                      THEN Num(df.value * df.rows) ELSE Obj,
                    top_3_products |-> List(<<Str("Product")>>),
                    revenue_concentration_top3 |-> Num(100),
                    revenue_gap_top2 |-> Num(0),
                    product_count |-> Num(1),
                    avg_revenue_per_product |-> Num(df.value * df.rows)]]

\* [c for c in df.columns if any(k in c.lower() for k in words)]
ColumnsWith(df, words) ==
    SelectSeq(df.cols, LAMBDA c : \E k \in words : Contains(k, Lower(c)))

\* [col for col in df.columns if "customer" in col.lower() and "id" in col.lower()]
CustomerIdColumns(df) ==
    SelectSeq(ColumnsWith(df, {<<"c", "u", "s", "t", "o", "m", "e", "r">>}),
              LAMBDA col : Contains(<<"i", "d">>, Lower(col)))

\* avg_order_value_question: the statistics of Amount; a date column only
\* adds the monthly chart
AvgOrderValueQuestion(df) ==
    IF ~HasColumn(df, <<"A", "m", "o", "u", "n", "t">>)
    THEN Result(<<"Column Amount not found">>)
    ELSE Result(<<"Average Order Value (AOV)">>)

\* basket_analysis_question: the pairs of products one customer bought; a
\* frame of one row holds no pair
BasketAnalysisQuestion(df) ==
    IF CustomerIdColumns(df) = << >>
          \/ ColumnsWith(df, {<<"p", "r", "o", "d", "u", "c", "t">>}) = << >>
    THEN Result(<<"Required columns not found">>)
    ELSE IF df.rows < 2
    THEN Result(<<"No product pairs found">>)
    ELSE Result(<<"most frequently co-purchased product pairs">>)

\* customer_clusters_question: KMeans with 3 clusters raises ValueError on
\* fewer than 3 customers
CustomerClustersQuestion(df) ==
    IF CustomerIdColumns(df) = << >> \/ ~HasColumn(df, <<"A", "m", "o", "u", "n", "t">>)
    THEN Result(<<"Customer ID or Amount column missing.">>)
    ELSE IF df.rows < 3
    THEN [kind |-> "raise", summary |-> << >>, exc |-> "ValueError",
          data |-> << >>]
    ELSE Result(<<"Customers were segmented into 3 groups">>)

\* price_elasticity_question: a product whose price or amount has fewer
\* than 2 distinct values is skipped; a frame of one row leaves none
PriceElasticityQuestion(df) ==
    IF \/ ColumnsWith(df, {<<"p", "r", "o", "d", "u", "c", "t">>}) = << >>
       \/ ColumnsWith(df, {<<"a", "m", "o", "u", "n", "t">>, <<"s", "a", "l", "e", "s">>}) = << >>
       \/ ColumnsWith(df, {<<"p", "r", "i", "c", "e">>}) = << >>
    THEN Result(<<"Product, amount, or price column missing.">>)
    ELSE IF df.rows < 2
    THEN Result(<<"Not enough variation in price/sales">>)
    ELSE Result(<<"Price elasticity estimated">>)

\* profit_margin_question
ProfitMarginQuestion(df) ==
    IF ~HasColumn(df, <<"A", "m", "o", "u", "n", "t">>) \/ ~HasColumn(df, <<"C", "o", "s", "t">>)
    THEN Result(<<"Missing 'Amount' or 'Cost' column.">>)
    ELSE Result(<<"Average profit margin per order">>)

\* promo_effectiveness_question: the means of the promo and the other rows
\* (nan for an empty group) and the t-test between them
PromoEffectivenessQuestion(df) ==
    IF \/ ColumnsWith(df, {<<"p", "r", "o", "m", "o">>,
                            <<"d", "i", "s", "c", "o", "u", "n", "t">>}) = << >>
       \/ ColumnsWith(df, {<<"a", "m", "o", "u", "n", "t">>, <<"s", "a", "l", "e", "s">>}) = << >>
    THEN Result(<<"Promo/discount or amount column missing.">>)
    ELSE Result(<<"Promo uplift">>)

\* repeat_rate_question
RepeatRateQuestion(df) ==
    IF CustomerIdColumns(df) = << >>
    THEN Result(<<"Customer ID column is missing.">>)
    ELSE Result(<<"of customers placed more than one order">>)

\* return_rate_question
ReturnRateQuestion(df) ==
    IF \/ ColumnsWith(df, {<<"c", "a", "t", "e", "g", "o", "r", "y">>}) = << >>
       \/ ColumnsWith(df, {<<"r", "e", "t", "u", "r", "n">>,
                            <<"r", "e", "f", "u", "n", "d">>}) = << >>
    THEN Result(<<"Missing category or return/refund column.">>)
    ELSE Result(<<"Return/refund rate per category calculated.">>)

\* returns_question
ReturnsQuestion(df) ==
    IF \/ ColumnsWith(df, {<<"p", "r", "o", "d", "u", "c", "t">>}) = << >>
       \/ ColumnsWith(df, {<<"r", "e", "t", "u", "r", "n">>}) = << >>
    THEN Result(<<"Required columns for product or return information are missing">>)
    ELSE Result(<<"product(s) have a return rate higher than 1.5x the average">>)

\* rfm_question: pd.qcut into 4 bins raises ValueError (bin edges must be
\* unique) on the one customer of a frame of one row
RfmQuestion(df) ==
    IF \/ CustomerIdColumns(df) = << >>
       \/ ColumnsWith(df, {<<"d", "a", "t", "e">>}) = << >>
       \/ ColumnsWith(df, {<<"a", "m", "o", "u", "n", "t">>, <<"s", "a", "l", "e", "s">>}) = << >>
    THEN Result(<<"Customer ID, Date, or Amount column missing">>)
    ELSE IF df.rows < 2
    THEN [kind |-> "raise", summary |-> << >>, exc |-> "ValueError",
          data |-> << >>]
    ELSE Result(<<"Customer Segmentation using RFM Model">>)

\* sales_by_channel_question
SalesByChannelQuestion(df) ==
    IF ColumnsWith(df, {<<"c", "h", "a", "n", "n", "e", "l">>,
                        <<"p", "a", "y", "m", "e", "n", "t">>}) = << >>
          \/ ~HasColumn(df, <<"A", "m", "o", "u", "n", "t">>)
    THEN Result(<<"Unable to detect a valid 'Channel' or 'Amount' column">>)
    ELSE Result(<<"Sales by Channel">>)

\* sales_by_location_question
SalesByLocationQuestion(df) ==
    IF ~ (HasColumn(df, <<"L", "o", "c", "a", "t", "i", "o", "n">>)
          /\ HasColumn(df, <<"A", "m", "o", "u", "n", "t">>))
    THEN Result(<<"Required columns Location and Amount are missing">>)
    ELSE Result(<<"Top 5 Locations by Sales">>)

\* seasonality_question: the date column is chosen as in sales_trend
\* (IndexError on a frame without columns) before Amount is looked for
SeasonalityQuestion(df) ==
    IF df.cols = << >>
    THEN [kind |-> "raise", summary |-> << >>, exc |-> "IndexError",
          data |-> << >>]
    ELSE IF ~HasColumn(df, <<"A", "m", "o", "u", "n", "t">>)
    THEN Result(<<"Column Amount not found">>)
    ELSE Result(<<"Seasonality Analysis">>)

\* stockout_risk_question
StockoutRiskQuestion(df) ==
    IF \/ ColumnsWith(df, {<<"s", "t", "o", "c", "k">>}) = << >>
       \/ ColumnsWith(df, {<<"r", "e", "o", "r", "d", "e", "r">>}) = << >>
       \/ ColumnsWith(df, {<<"p", "r", "o", "d", "u", "c", "t">>}) = << >>
    THEN Result(<<"Missing stock/reorder/product columns.">>)
    ELSE Result(<<"products are at risk of stockout">>)

\* forecasting_question up to its call of the insight client, on a frame
\* of one row: the date column is chosen as in sales_trend; no month is
\* left when the date does not parse or the amount is not positive, and
\* LinearRegression.fit raises ValueError on no sample; with the one month
\* the slope is 0, R^2 and the deviation are nan, and the month's sales
\* are numpy's: a float for json when the column is float64, an object
\* json cannot encode when int64
ForecastingQuestion(df) ==
    LET date_cols == ColumnsWith(df, {<<"d", "a", "t", "e">>})
        date_col == IF date_cols # << >> THEN date_cols[1] ELSE df.cols[1]
    IN
    IF df.cols = << >>
    THEN [kind |-> "raise", summary |-> << >>, exc |-> "IndexError",
          data |-> << >>]
    ELSE IF ~HasColumn(df, <<"A", "m", "o", "u", "n", "t">>)
    THEN Result(<<"Amount column missing.">>)
    ELSE IF date_col \notin df.dates \/ df.value <= 0
    THEN [kind |-> "raise", summary |-> << >>, exc |-> "ValueError",
          data |-> << >>]
    ELSE [kind |-> "client", summary |-> << >>, exc |-> "",
          data |-> [analysis_type |-> Str("sales_forecast"),
                    historical_months |-> Num(1),
                    model_accuracy |-> [t |-> "nan", v |-> << >>],
                    trend_direction |-> Str("decreasing"),
                    trend_strength |-> Num(0),
                    current_month_sales |-> IF df.dtype = "float64"
                                            THEN Num(df.value * df.rows)
                                            ELSE Obj,
                    avg_monthly_sales |-> Num(df.value * df.rows),
                    sales_volatility |-> [t |-> "nan", v |-> << >>],
                    forecast_values |-> List([i \in 1..3 |->
                                                Num(df.value * df.rows)]),
                    forecast_dates |-> List([i \in 1..3 |-> Str("month")]),
                    confidence_level |-> Str("low"),
                    recent_trend |-> Str("stable")]]

\* sentiment_question up to its call of the insight client, on a frame of
\* one row whose review has the polarity df.polarity (-1, 0 or 1) and a
\* word the vectorizer keeps: one review gives no topics table, and the
\* deviation of one score is nan
SentimentQuestion(df) ==
    LET review_cols ==
            ColumnsWith(df, {<<"f", "e", "e", "d", "b", "a", "c", "k">>,
                             <<"r", "e", "v", "i", "e", "w">>,
                             <<"c", "o", "m", "m", "e", "n", "t">>, <<"t", "e", "x", "t">>})
        pos == IF df.polarity > 0 THEN 1 ELSE 0
        neg == IF df.polarity < 0 THEN 1 ELSE 0
    IN
    IF review_cols = << >>
    THEN Result(<<"No column found for customer feedback or reviews.">>)
    ELSE [kind |-> "task", summary |-> << >>, exc |-> "",
          data |-> [total_reviews |-> Num(1),
                    positive_reviews |-> Num(pos),
                    negative_reviews |-> Num(neg),
                    neutral_reviews |-> Num(1 - pos - neg),
                    avg_sentiment_score |-> Num(df.polarity),
                    sentiment_std |-> [t |-> "nan", v |-> << >>],
                    positive_percentage |-> Num(100 * pos),
                    negative_percentage |-> Num(100 * neg),
                    top_negative_themes |-> List(<< >>),
                    sentiment_distribution |->
                        [t |-> "dict",
                         v |-> <<Num(pos), Num(0), Num(1 - pos - neg),
                                 Num(0), Num(neg)>>]]]

\* custom_question: data_context merged with perform_basic_analysis's result
\* (general branch: the question names no keyword); df.dtypes and
\* df.isnull().sum() hold numpy objects, one per column
CustomContext(df, question, domain) ==
    [question |-> [t |-> "str", v |-> question.text],
     domain |-> Str(domain),
     rows |-> Num(df.rows),
     columns |-> Num(Len(df.cols)),
     data_types |-> List([i \in 1..Len(df.cols) |-> Obj]),
     missing_values |-> List([i \in 1..Len(df.cols) |-> Obj]),
     basic_insights |-> Str("Dataset contains records")]

\* custom_question lines 43-63: the summary built from what the client did
CustomSummary(question, domain, df, r) ==
    IF r.kind = "text"
    THEN <<"AI-Powered Custom Analysis. Question: ">> \o question.text \o r.text
    ELSE <<"Custom Analysis Results. Question: ">> \o question.text
         \o <<"Domain: ", domain, "Enhanced AI analysis temporarily unavailable">>

(* ------------------------------ inputs --------------------------------- *)
P1 == [total_revenue |-> Num(1), count |-> Num(1)]
P2 == [total_revenue |-> Num(2), count |-> Num(1)]
P3 == [total_revenue |-> Num(1), count |-> Obj]
Domains == {"retail", "retail_ecommerce"}
\* (analysis_data, domain, question_type) of the direct calls
Requests ==
    {<<P1, "retail", "general">>, <<P2, "retail", "general">>,
     <<P1, "retail", "custom_analysis">>, <<P3, "retail", "general">>,
     <<P1, "retail_ecommerce", "general">>}
Questions ==
    [id : RegisteredIds \cup {"why_sales_dropped"}, text : {<<"why">>}]
\* frames of one row: no columns; a product with its amount, held as
\* float64 or as int64; a date with an amount, held as float64 or as
\* int64; a customer's order with a review. `dates` are the columns whose
\* values parse as dates, `value` the amount of the row, `polarity` the
\* polarity of the review
Frames ==
    {[rows |-> 1, cols |-> << >>, dates |-> {}, dtype |-> "", value |-> 0,
      polarity |-> 0],
     [rows |-> 1, dates |-> {}, dtype |-> "float64", value |-> 1,
      polarity |-> 0,
      cols |-> <<<<"P", "r", "o", "d", "u", "c", "t">>,
                 <<"A", "m", "o", "u", "n", "t">>>>],
     [rows |-> 1, dates |-> {}, dtype |-> "int64", value |-> 1,
      polarity |-> 0,
      cols |-> <<<<"P", "r", "o", "d", "u", "c", "t">>,
                 <<"A", "m", "o", "u", "n", "t">>>>],
     [rows |-> 1, dates |-> {<<"D", "a", "t", "e">>}, dtype |-> "float64",
      value |-> 1, polarity |-> 0,
      cols |-> <<<<"D", "a", "t", "e">>, <<"A", "m", "o", "u", "n", "t">>>>],
     [rows |-> 1, dates |-> {<<"D", "a", "t", "e">>}, dtype |-> "int64",
      value |-> 1, polarity |-> 0,
      cols |-> <<<<"D", "a", "t", "e">>, <<"A", "m", "o", "u", "n", "t">>>>],
     [rows |-> 1, dates |-> {<<"D", "a", "t", "e">>}, dtype |-> "float64",
      value |-> 1, polarity |-> 0,
      cols |-> <<<<"C", "u", "s", "t", "o", "m", "e", "r", "I", "D">>,
                 <<"P", "r", "o", "d", "u", "c", "t">>,
                 <<"A", "m", "o", "u", "n", "t">>,
                 <<"D", "a", "t", "e">>,
                 <<"R", "e", "v", "i", "e", "w">>>>]}
\* business_questions.py passes a target column for these ids only
Extra(qid) ==
    IF qid \in {"automl_classification", "automl_regression", "churn_prediction"}
    THEN {"target"} ELSE {}
\* the instants at which the clock is read
Instants == {0, 1, cache_ttl}

(* ------------------------------ actions -------------------------------- *)
InitClient ==
    /\ cache = << >>
    /\ now = 0
    /\ ncalls = 0
    /\ pc = "idle"
    /\ req = NoReq
    /\ cacheKey = << >>
    /\ cacheAtStart = << >>
    /\ modelIdx = 0
    /\ attempt = 0
    /\ invLog = << >>
    /\ ret = NoRet
    /\ caller = ""
    /\ last = NoLast
    /\ disp = NoDisp

\* time passes (between calls, and while a call waits for a model)
Tick ==
    /\ pc \in {"idle", "call", "task"}
    /\ \E t \in Instants : t > now /\ now' = t
    /\ UNCHANGED <<cache, ncalls, pc, req, cacheKey, cacheAtStart, modelIdx,
                   attempt, invLog, ret, caller, last, disp>>

\* generate_insights lines 222-237: model choice, prompt, cache lookup
Start(analysis_data, domain, question_type, who) ==
    LET primary_model == PrimaryModel(question_type)
        prompt == BuildConsistentPrompt("insights_generation", analysis_data,
                                        domain)
    IN
    /\ ncalls' = ncalls + 1
    /\ req' = [data |-> analysis_data, domain |-> domain,
               qt |-> question_type, at |-> now]
    /\ caller' = who
    /\ cacheAtStart' = cache
    /\ invLog' = << >>
    /\ attempt' = 0
    /\ IF prompt.kind = "raise"
       THEN /\ pc' = "done"
            /\ ret' = [kind |-> "raise", text |-> << >>, exc |-> prompt.exc,
                       src |-> "prompt"]
            /\ cacheKey' = << >>
            /\ modelIdx' = 0
            /\ UNCHANGED cache
       ELSE LET cache_key == GetCacheKey(prompt.val, ModelId(primary_model),
                                         <<domain, question_type>>)
                got == GetCachedResponse(cache, cache_key, now)
            IN
            /\ cacheKey' = cache_key
            /\ cache' = got.cache
            /\ IF got.hit /\ got.resp # << >>
               THEN /\ pc' = "done"
                    /\ ret' = [kind |-> "text", text |-> got.resp, exc |-> "",
                               src |-> "cache"]
                    /\ modelIdx' = 0
               ELSE /\ pc' = "call"
                    /\ ret' = NoRet
                    /\ modelIdx' = 1

\* generate_insights called by application code
GenerateInsights ==
    /\ pc = "idle"
    /\ disp = NoDisp
    /\ ncalls < MaxCalls
    /\ \E r \in Requests : Start(r[1], r[2], r[3], "direct")
    /\ UNCHANGED <<now, last, disp>>

\* a loop that stores the static fallback text as well
AfterModelCachingFallback(response) ==
    IF response # << >>
    THEN /\ cache' = CacheResponse(cache, cacheKey, response, now)
         /\ ret' = [kind |-> "text", text |-> response, exc |-> "",
                    src |-> "model"]
         /\ pc' = "done"
         /\ UNCHANGED <<modelIdx, attempt>>
    ELSE IF modelIdx < Len(ModelsToTry(req.qt))
    THEN /\ modelIdx' = modelIdx + 1
         /\ attempt' = 0
         /\ UNCHANGED <<cache, ret, pc>>
    ELSE /\ cache' = CacheResponse(cache, cacheKey,
                          GetFallbackInsights(req.data, req.domain), now)
         /\ ret' = [kind |-> "text",
                    text |-> GetFallbackInsights(req.data, req.domain),
                    exc |-> "", src |-> "fallback"]
         /\ pc' = "done"
         /\ UNCHANGED <<modelIdx, attempt>>

\* the loop of generate_insights (lines 242-252) after _call_model returned
\* `response` (<< >> stands for both None and the empty string)
AfterModel(response) ==
    IF response # << >>
    THEN /\ cache' = CacheResponse(cache, cacheKey, response, now)
         /\ ret' = [kind |-> "text", text |-> response, exc |-> "",
                    src |-> "model"]
         /\ pc' = "done"
         /\ UNCHANGED <<modelIdx, attempt>>
    ELSE IF modelIdx < Len(ModelsToTry(req.qt))
    THEN /\ modelIdx' = modelIdx + 1
         /\ attempt' = 0
         /\ UNCHANGED <<cache, ret, pc>>
    ELSE /\ ret' = [kind |-> "text",
                    text |-> GetFallbackInsights(req.data, req.domain),
                    exc |-> "", src |-> "fallback"]
         /\ pc' = "done"
         /\ UNCHANGED <<cache, modelIdx, attempt>>

\* one attempt of _call_model (lines 188-215) on the model being tried; a
\* None content raises inside the try block like a failed request
Invoke ==
    /\ pc = "call"
    /\ \E out \in ApiOutcomes :
          LET model_key == ModelsToTry(req.qt)[modelIdx]
              response == IF out.kind = "content" THEN Strip(out.content)
                          ELSE << >>
          IN
          /\ invLog' = Append(invLog, [model |-> model_key,
                                       ok |-> response # << >>])
          /\ IF out.kind = "content"
             THEN AfterModel(response)
             ELSE IF attempt < retries
             THEN /\ attempt' = attempt + 1
                  /\ UNCHANGED <<cache, ret, pc, modelIdx>>
             ELSE AfterModel(<< >>)
    /\ UNCHANGED <<now, ncalls, req, cacheKey, cacheAtStart, caller, last,
                   disp>>

\* the locals of a finished call are gone
Forget ==
    /\ req' = NoReq
    /\ cacheKey' = << >>
    /\ cacheAtStart' = << >>
    /\ modelIdx' = 0
    /\ attempt' = 0
    /\ invLog' = << >>
    /\ ret' = NoRet
    /\ caller' = ""

\* what is remembered of a finished call: its arguments and lookup time, its
\* outcome, and whether it invoked a model never (0), once (1) or more (2)
ThisCall ==
    [valid |-> TRUE, req |-> req, ret |-> ret,
     n |-> IF Len(invLog) > 1 THEN 2 ELSE Len(invLog)]

\* the call remembered after this one: this one, or the one remembered before
Remember == \E keep \in BOOLEAN : last' = IF keep /\ last.valid THEN last ELSE ThisCall

\* generate_insights hands its result (or its exception) to the caller
Return ==
    /\ pc = "done"
    /\ caller = "direct"
    /\ pc' = "idle"
    /\ Remember
    /\ Forget
    /\ UNCHANGED <<cache, now, ncalls, disp>>

\* clear_cache
ClearCache ==
    /\ pc = "idle"
    /\ cache # << >>
    /\ cache' = << >>
    /\ last' = NoLast
    /\ UNCHANGED <<now, ncalls, pc, req, cacheKey, cacheAtStart, modelIdx, attempt,
                   invLog, ret, caller, disp>>

\* a task method up to its cache lookup: the prompt, the key under the
\* task's model and context, the lookup; generate_questions and
\* profile_data parse a hit and go on to the model when it is not JSON
TaskStart(method, data, domain) ==
    LET task == TaskOf(method)
        prompt == BuildConsistentPrompt(task.task_type, data, domain)
    IN
    /\ ncalls' = ncalls + 1
    /\ req' = [data |-> data, domain |-> domain, qt |-> "", at |-> now]
    /\ caller' = method
    /\ cacheAtStart' = cache
    /\ invLog' = << >>
    /\ attempt' = 0
    /\ modelIdx' = 0
    /\ IF prompt.kind = "raise"
       THEN /\ pc' = "task_done"
            /\ ret' = [kind |-> "raise", text |-> << >>, exc |-> prompt.exc,
                       src |-> "prompt"]
            /\ cacheKey' = << >>
            /\ UNCHANGED cache
       ELSE LET cache_key == GetCacheKey(prompt.val, ModelId(task.model),
                                         <<task.context, domain>>)
                got == GetCachedResponse(cache, cache_key, now)
                loaded == JsonLoads(got.resp)
            IN
            /\ cacheKey' = cache_key
            /\ cache' = got.cache
            /\ IF got.hit /\ got.resp # << >>
                  /\ (method = "analyze_sentiment" \/ loaded.kind # "error")
               THEN /\ pc' = "task_done"
                    /\ ret' = IF method = "analyze_sentiment"
                              THEN Returned("text", got.resp, "cache")
                              ELSE Returned(loaded.kind, loaded.val, "cache")
               ELSE /\ pc' = "task"
                    /\ ret' = NoRet

\* analyze_sentiment, generate_questions or profile_data called by
\* application code
CallTask ==
    /\ pc = "idle"
    /\ disp = NoDisp
    /\ ncalls < MaxCalls
    /\ \E method \in TaskNames, domain \in Domains :
          TaskStart(method, P1, domain)
    /\ UNCHANGED <<now, last, disp>>

\* analyze_sentiment after _call_model returned `response` (lines 267-273)
AfterSentiment(response) ==
    IF response # << >>
    THEN /\ cache' = CacheResponse(cache, cacheKey, response, now)
         /\ ret' = Returned("text", response, "model")
    ELSE /\ ret' = TaskFallback("analyze_sentiment", req.domain)
         /\ UNCHANGED cache

\* generate_questions after _call_model returned (lines 292-307): a JSON
\* list is stored as it came, plain text is stored as the dumped list of
\* its lines, any other JSON value ends in the fallback questions
AfterQuestions(response) ==
    LET loaded == JsonLoads(response)
        questions == SplitLines(response)
    IN
    IF response # << >> /\ loaded.kind = "list"
    THEN /\ cache' = CacheResponse(cache, cacheKey, response, now)
         /\ ret' = Returned("list", loaded.val, "model")
    ELSE IF response # << >> /\ loaded.kind = "error" /\ questions # << >>
    THEN /\ cache' = CacheResponse(cache, cacheKey,
                          <<"[">> \o JoinItems(questions) \o <<"]">>, now)
         /\ ret' = Returned("list", questions, "model")
    ELSE /\ ret' = TaskFallback("generate_questions", req.domain)
         /\ UNCHANGED cache

\* profile_data after _call_model returned (lines 326-340): a JSON answer
\* is stored and returned parsed, plain text is returned inside a dict and
\* not stored
AfterProfile(response) ==
    LET loaded == JsonLoads(response)
    IN
    IF response # << >> /\ loaded.kind # "error"
    THEN /\ cache' = CacheResponse(cache, cacheKey, response, now)
         /\ ret' = Returned(loaded.kind, loaded.val, "model")
    ELSE IF response # << >>
    THEN /\ ret' = Returned("dict",
                            <<<<"mapping_suggestions">>,
                              <<"quality_assessment">> \o response,
                              <<"recommendations">>>>, "model")
         /\ UNCHANGED cache
    ELSE /\ ret' = TaskFallback("profile_data", req.domain)
         /\ UNCHANGED cache

\* one attempt of _call_model on the task's model, and the rest of the
\* method once _call_model returned
TaskInvoke ==
    /\ pc = "task"
    /\ \E out \in {[kind |-> "raise", content |-> << >>]}
                   \cup {[kind |-> "content", content |-> c] :
                            c \in TaskContents(caller)} :
          LET response == IF out.kind = "content" THEN Strip(out.content)
                          ELSE << >>
          IN
          /\ invLog' = Append(invLog, [model |-> TaskOf(caller).model,
                                       ok |-> response # << >>])
          /\ IF out.kind = "raise" /\ attempt < retries
             THEN /\ attempt' = attempt + 1
                  /\ UNCHANGED <<cache, ret, pc>>
             ELSE /\ pc' = "task_done"
                  /\ UNCHANGED attempt
                  /\ CASE caller = "analyze_sentiment" ->
                              AfterSentiment(response)
                       [] caller = "generate_questions" ->
                              AfterQuestions(response)
                       [] caller = "profile_data" -> AfterProfile(response)
    /\ UNCHANGED <<now, ncalls, req, cacheKey, cacheAtStart, modelIdx,
                   caller, last, disp>>

\* the task method hands its result (or its exception) to the caller
TaskReturn ==
    /\ pc = "task_done"
    /\ disp = NoDisp
    /\ pc' = "idle"
    /\ Forget
    /\ UNCHANGED <<cache, now, ncalls, last, disp>>

\* run_analysis_for_question(df, mapping, question, domain, **kw): an id
\* the registry does not hold goes to custom_question, any other to its
\* handler, whose exceptions are not caught
RunAnalysis ==
    /\ pc = "idle"
    /\ disp = NoDisp
    /\ \E question \in Questions, df \in Frames, domain \in Domains :
          LET fn == RegistryGet(question.id)
              kw == Extra(question.id)
              body ==
                CASE fn = "avg_order_value" -> AvgOrderValueQuestion(df)
                  [] fn = "basket_analysis" -> BasketAnalysisQuestion(df)
                  [] fn = "bottom_products" -> BottomProductsQuestion(df)
                  [] fn = "churn_prediction" -> ChurnQuestion(df)
                  [] fn = "customer_clusters" -> CustomerClustersQuestion(df)
                  [] fn = "price_elasticity" -> PriceElasticityQuestion(df)
                  [] fn = "product_returns" -> ReturnsQuestion(df)
                  [] fn = "profit_margin" -> ProfitMarginQuestion(df)
                  [] fn = "promo_effectiveness" ->
                        PromoEffectivenessQuestion(df)
                  [] fn = "repeat_customers" -> RepeatRateQuestion(df)
                  [] fn = "return_rate" -> ReturnRateQuestion(df)
                  [] fn = "rfm_segmentation" -> RfmQuestion(df)
                  [] fn = "sales_by_channel" -> SalesByChannelQuestion(df)
                  [] fn = "sales_by_location" -> SalesByLocationQuestion(df)
                  [] fn = "sales_forecast" -> ForecastingQuestion(df)
                  [] fn = "sales_trend" -> SalesTrendQuestion(df)
                  [] fn = "seasonality" -> SeasonalityQuestion(df)
                  [] fn = "sentiment_analysis" -> SentimentQuestion(df)
                  [] fn = "stockout_risk" -> StockoutRiskQuestion(df)
                  [] fn = "top_products" -> TopProductsQuestion(df)
              running == [qid |-> question.id, kind |-> "running",
                          summary |-> << >>, exc |-> "", via |-> "",
                          handler |-> IF fn = None THEN "custom_question"
                                      ELSE fn,
                          question |-> question, df |-> df, domain |-> domain]
          IN
          IF fn = None
          THEN /\ ncalls < MaxCalls
               /\ Start(CustomContext(df, question, domain), domain,
                        "custom_analysis", "custom")
               /\ disp' = running
          ELSE IF fn = "KeyError" \/ ~Binds(fn, kw)
          THEN /\ pc' = "answered"
               /\ disp' = IF fn = "KeyError"
                          THEN [NoDisp EXCEPT !.qid = question.id,
                                   !.kind = "raise", !.exc = "KeyError"]
                          ELSE [NoDisp EXCEPT !.qid = question.id,
                                   !.kind = "raise", !.handler = fn,
                                   !.exc = "TypeError"]
               /\ UNCHANGED <<cache, ncalls, req, cacheKey, cacheAtStart, modelIdx,
                              attempt, invLog, ret, caller>>
          ELSE IF body.kind = "client"
          THEN /\ ncalls < MaxCalls
               /\ Start(body.data, "retail",
                        IF fn = "sales_forecast" THEN "forecasting"
                        ELSE "top_products", "handler")
               /\ disp' = running
          ELSE IF body.kind = "task"
          THEN /\ ncalls < MaxCalls
               /\ TaskStart("analyze_sentiment", body.data, "retail")
               /\ disp' = running
          ELSE /\ pc' = "answered"
               /\ disp' = [NoDisp EXCEPT !.qid = question.id,
                              !.kind = body.kind, !.handler = fn,
                              !.summary = body.summary, !.exc = body.exc]
               /\ UNCHANGED <<cache, ncalls, req, cacheKey, cacheAtStart, modelIdx,
                              attempt, invLog, ret, caller>>
    /\ UNCHANGED <<now, last>>

\* custom_question after the client returned or raised (lines 43-69)
CustomFinish ==
    /\ pc = "done"
    /\ caller = "custom"
    /\ pc' = "answered"
    /\ Forget
    /\ disp' = [qid |-> disp.qid, kind |-> "result", exc |-> "",
                handler |-> "custom_question",
                via |-> IF ret.kind = "text" THEN "ai" ELSE "basic",
                summary |-> CustomSummary(disp.question, disp.domain,
                                          disp.df, ret)]
    /\ UNCHANGED <<cache, now, ncalls, last>>

\* top_products_question after the client returned or raised (lines
\* 92-115)
TopProductsFinish ==
    /\ pc = "done"
    /\ caller = "handler"
    /\ disp.handler = "top_products"
    /\ pc' = "answered"
    /\ Forget
    /\ disp' = [qid |-> disp.qid, kind |-> "result", exc |-> "",
                handler |-> disp.handler,
                via |-> IF ret.kind = "text" THEN "ai" ELSE "basic",
                summary |->
                    IF ret.kind = "text"
                    THEN <<"AI-Powered Business Insights: Top Products">>
                            \o ret.text
                    ELSE <<"Insight: Top Selling Products",
                           "Enhanced AI insights temporarily unavailable">>]
    /\ UNCHANGED <<cache, now, ncalls, last>>

\* forecasting_question after the client returned or raised (lines 64-96)
ForecastingFinish ==
    /\ pc = "done"
    /\ caller = "handler"
    /\ disp.handler = "sales_forecast"
    /\ pc' = "answered"
    /\ Forget
    /\ disp' = [qid |-> disp.qid, kind |-> "result", exc |-> "",
                handler |-> disp.handler,
                via |-> IF ret.kind = "text" THEN "ai" ELSE "basic",
                summary |->
                    IF ret.kind = "text"
                    THEN <<"AI-Powered Sales Forecasting Analysis">>
                            \o ret.text
                    ELSE <<"Sales Forecasting Analysis",
                           "Enhanced AI forecasting insights temporarily unavailable">>]
    /\ UNCHANGED <<cache, now, ncalls, last>>

\* sentiment_question after analyze_customer_sentiment returned or raised
\* (lines 93-120)
SentimentFinish ==
    /\ pc = "task_done"
    /\ disp.kind = "running"
    /\ disp.handler = "sentiment_analysis"
    /\ pc' = "answered"
    /\ Forget
    /\ disp' = [qid |-> disp.qid, kind |-> "result", exc |-> "",
                handler |-> disp.handler,
                via |-> IF ret.kind = "text" THEN "ai" ELSE "basic",
                summary |->
                    IF ret.kind = "text"
                    THEN <<"AI-Powered Customer Sentiment Analysis">>
                            \o ret.text
                    ELSE <<"Customer Sentiment Analysis",
                           "Enhanced AI sentiment analysis temporarily unavailable">>]
    /\ UNCHANGED <<cache, now, ncalls, last>>

\* run_analysis_for_question hands its result (or its exception) to the caller
Answered ==
    /\ pc = "answered"
    /\ pc' = "idle"
    /\ disp' = NoDisp
    /\ UNCHANGED <<cache, now, ncalls, req, cacheKey, cacheAtStart, modelIdx, attempt,
                   invLog, ret, caller, last>>

(* ---------------- SmartAnalyticsEngine: classifier and mapper ---------- *)
\* Pattern words are written as their characters.
\* the keys of self.business_patterns, in registration order
BusinessTypes ==
    <<"retail_ecommerce", "real_estate", "restaurant_food", "healthcare",
      "education">>

PatternTypes ==
    <<"keywords", "date_patterns", "amount_patterns", "customer_patterns",
      "location_patterns">>

\* self.business_patterns[business_type][pattern_type]
BusinessPatterns(business_type, pattern_type) ==
    CASE business_type = "retail_ecommerce" /\ pattern_type = "keywords" ->
            <<<<"p", "r", "o", "d", "u", "c", "t">>, <<"i", "t", "e", "m">>,
              <<"s", "k", "u">>, <<"o", "r", "d", "e", "r">>,
              <<"c", "u", "s", "t", "o", "m", "e", "r">>,
              <<"a", "m", "o", "u", "n", "t">>, <<"p", "r", "i", "c", "e">>,
              <<"q", "u", "a", "n", "t", "i", "t", "y">>,
              <<"s", "a", "l", "e">>,
              <<"p", "u", "r", "c", "h", "a", "s", "e">>>>
      [] business_type = "retail_ecommerce" /\ pattern_type = "date_patterns" ->
            <<<<"d", "a", "t", "e">>, <<"t", "i", "m", "e">>,
              <<"c", "r", "e", "a", "t", "e", "d">>,
              <<"p", "u", "r", "c", "h", "a", "s", "e">>,
              <<"o", "r", "d", "e", "r">>>>
      [] business_type = "retail_ecommerce" /\ pattern_type = "amount_patterns" ->
            <<<<"a", "m", "o", "u", "n", "t">>, <<"p", "r", "i", "c", "e">>,
              <<"t", "o", "t", "a", "l">>,
              <<"r", "e", "v", "e", "n", "u", "e">>, <<"c", "o", "s", "t">>,
              <<"v", "a", "l", "u", "e">>>>
      [] business_type = "retail_ecommerce" /\ pattern_type = "customer_patterns" ->
            <<<<"c", "u", "s", "t", "o", "m", "e", "r">>,
              <<"c", "l", "i", "e", "n", "t">>, <<"u", "s", "e", "r">>,
              <<"b", "u", "y", "e", "r">>, <<"i", "d">>>>
      [] business_type = "retail_ecommerce" /\ pattern_type = "location_patterns" ->
            <<<<"l", "o", "c", "a", "t", "i", "o", "n">>,
              <<"r", "e", "g", "i", "o", "n">>, <<"c", "i", "t", "y">>,
              <<"s", "t", "a", "t", "e">>,
              <<"c", "o", "u", "n", "t", "r", "y">>,
              <<"s", "t", "o", "r", "e">>, <<"b", "r", "a", "n", "c", "h">>>>
      [] business_type = "real_estate" /\ pattern_type = "keywords" ->
            <<<<"p", "r", "o", "p", "e", "r", "t", "y">>,
              <<"h", "o", "u", "s", "e">>,
              <<"a", "p", "a", "r", "t", "m", "e", "n", "t">>,
              <<"s", "a", "l", "e">>, <<"p", "r", "i", "c", "e">>,
              <<"a", "g", "e", "n", "t">>, <<"s", "u", "b", "u", "r", "b">>,
              <<"b", "e", "d", "r", "o", "o", "m">>,
              <<"b", "a", "t", "h", "r", "o", "o", "m">>>>
      [] business_type = "real_estate" /\ pattern_type = "date_patterns" ->
            <<<<"s", "a", "l", "e", "d", "a", "t", "e">>,
              <<"d", "a", "t", "e">>, <<"l", "i", "s", "t", "e", "d">>,
              <<"s", "o", "l", "d">>>>
      [] business_type = "real_estate" /\ pattern_type = "amount_patterns" ->
            <<<<"p", "r", "i", "c", "e">>, <<"v", "a", "l", "u", "e">>,
              <<"a", "m", "o", "u", "n", "t">>, <<"c", "o", "s", "t">>>>
      [] business_type = "real_estate" /\ pattern_type = "customer_patterns" ->
            <<<<"a", "g", "e", "n", "t">>, <<"b", "u", "y", "e", "r">>,
              <<"s", "e", "l", "l", "e", "r">>,
              <<"c", "l", "i", "e", "n", "t">>>>
      [] business_type = "real_estate" /\ pattern_type = "location_patterns" ->
            <<<<"s", "u", "b", "u", "r", "b">>,
              <<"l", "o", "c", "a", "t", "i", "o", "n">>,
              <<"a", "d", "d", "r", "e", "s", "s">>, <<"c", "i", "t", "y">>,
              <<"r", "e", "g", "i", "o", "n">>>>
      [] business_type = "restaurant_food" /\ pattern_type = "keywords" ->
            <<<<"m", "e", "n", "u">>, <<"d", "i", "s", "h">>,
              <<"f", "o", "o", "d">>, <<"o", "r", "d", "e", "r">>,
              <<"c", "u", "s", "t", "o", "m", "e", "r">>,
              <<"t", "a", "b", "l", "e">>, <<"w", "a", "i", "t", "e", "r">>,
              <<"k", "i", "t", "c", "h", "e", "n">>>>
      [] business_type = "restaurant_food" /\ pattern_type = "date_patterns" ->
            <<<<"d", "a", "t", "e">>, <<"t", "i", "m", "e">>,
              <<"o", "r", "d", "e", "r">>,
              <<"s", "e", "r", "v", "i", "c", "e">>>>
      [] business_type = "restaurant_food" /\ pattern_type = "amount_patterns" ->
            <<<<"a", "m", "o", "u", "n", "t">>, <<"t", "o", "t", "a", "l">>,
              <<"b", "i", "l", "l">>, <<"p", "r", "i", "c", "e">>,
              <<"c", "o", "s", "t">>>>
      [] business_type = "restaurant_food" /\ pattern_type = "customer_patterns" ->
            <<<<"c", "u", "s", "t", "o", "m", "e", "r">>,
              <<"g", "u", "e", "s", "t">>, <<"t", "a", "b", "l", "e">>,
              <<"p", "a", "r", "t", "y">>>>
      [] business_type = "restaurant_food" /\ pattern_type = "location_patterns" ->
            <<<<"t", "a", "b", "l", "e">>,
              <<"s", "e", "c", "t", "i", "o", "n">>, <<"a", "r", "e", "a">>,
              <<"z", "o", "n", "e">>>>
      [] business_type = "healthcare" /\ pattern_type = "keywords" ->
            <<<<"p", "a", "t", "i", "e", "n", "t">>,
              <<"d", "o", "c", "t", "o", "r">>,
              <<"a", "p", "p", "o", "i", "n", "t", "m", "e", "n", "t">>,
              <<"t", "r", "e", "a", "t", "m", "e", "n", "t">>,
              <<"d", "i", "a", "g", "n", "o", "s", "i", "s">>,
              <<"m", "e", "d", "i", "c", "a", "l">>,
              <<"h", "e", "a", "l", "t", "h">>>>
      [] business_type = "healthcare" /\ pattern_type = "date_patterns" ->
            <<<<"d", "a", "t", "e">>,
              <<"a", "p", "p", "o", "i", "n", "t", "m", "e", "n", "t">>,
              <<"v", "i", "s", "i", "t">>,
              <<"t", "r", "e", "a", "t", "m", "e", "n", "t">>>>
      [] business_type = "healthcare" /\ pattern_type = "amount_patterns" ->
            <<<<"c", "o", "s", "t">>, <<"f", "e", "e">>,
              <<"c", "h", "a", "r", "g", "e">>,
              <<"a", "m", "o", "u", "n", "t">>, <<"b", "i", "l", "l">>>>
      [] business_type = "healthcare" /\ pattern_type = "customer_patterns" ->
            <<<<"p", "a", "t", "i", "e", "n", "t">>,
              <<"c", "l", "i", "e", "n", "t">>, <<"i", "d">>>>
      [] business_type = "healthcare" /\ pattern_type = "location_patterns" ->
            <<<<"d", "e", "p", "a", "r", "t", "m", "e", "n", "t">>,
              <<"c", "l", "i", "n", "i", "c">>, <<"r", "o", "o", "m">>,
              <<"w", "a", "r", "d">>>>
      [] business_type = "education" /\ pattern_type = "keywords" ->
            <<<<"s", "t", "u", "d", "e", "n", "t">>,
              <<"c", "o", "u", "r", "s", "e">>, <<"g", "r", "a", "d", "e">>,
              <<"t", "e", "a", "c", "h", "e", "r">>,
              <<"c", "l", "a", "s", "s">>,
              <<"e", "n", "r", "o", "l", "l", "m", "e", "n", "t">>,
              <<"t", "u", "i", "t", "i", "o", "n">>>>
      [] business_type = "education" /\ pattern_type = "date_patterns" ->
            <<<<"d", "a", "t", "e">>,
              <<"e", "n", "r", "o", "l", "l", "m", "e", "n", "t">>,
              <<"g", "r", "a", "d", "u", "a", "t", "i", "o", "n">>,
              <<"s", "e", "m", "e", "s", "t", "e", "r">>>>
      [] business_type = "education" /\ pattern_type = "amount_patterns" ->
            <<<<"t", "u", "i", "t", "i", "o", "n">>, <<"f", "e", "e">>,
              <<"c", "o", "s", "t">>, <<"a", "m", "o", "u", "n", "t">>>>
      [] business_type = "education" /\ pattern_type = "customer_patterns" ->
            <<<<"s", "t", "u", "d", "e", "n", "t">>,
              <<"l", "e", "a", "r", "n", "e", "r">>, <<"i", "d">>>>
      [] business_type = "education" /\ pattern_type = "location_patterns" ->
            <<<<"c", "a", "m", "p", "u", "s">>,
              <<"b", "u", "i", "l", "d", "i", "n", "g">>,
              <<"r", "o", "o", "m">>,
              <<"d", "e", "p", "a", "r", "t", "m", "e", "n", "t">>>>

\* the pattern lists auto_map_columns falls back to for an unknown type
DefaultPatterns(pattern_type) ==
    CASE pattern_type = "date_patterns" ->
            <<<<"d", "a", "t", "e">>, <<"t", "i", "m", "e">>>>
      [] pattern_type = "amount_patterns" ->
            <<<<"a", "m", "o", "u", "n", "t">>, <<"p", "r", "i", "c", "e">>,
              <<"t", "o", "t", "a", "l">>>>
      [] pattern_type = "customer_patterns" ->
            <<<<"c", "u", "s", "t", "o", "m", "e", "r">>,
              <<"c", "l", "i", "e", "n", "t">>, <<"i", "d">>>>
      [] pattern_type = "location_patterns" ->
            <<<<"l", "o", "c", "a", "t", "i", "o", "n">>,
              <<"r", "e", "g", "i", "o", "n">>, <<"c", "i", "t", "y">>>>

product_keywords ==
    <<<<"p", "r", "o", "d", "u", "c", "t">>, <<"i", "t", "e", "m">>,
      <<"s", "k", "u">>, <<"m", "e", "n", "u">>, <<"d", "i", "s", "h">>,
      <<"c", "o", "u", "r", "s", "e">>,
      <<"t", "r", "e", "a", "t", "m", "e", "n", "t">>,
      <<"p", "r", "o", "p", "e", "r", "t", "y">>>>

\* re.search(pattern, col, re.IGNORECASE) for a lower-case literal pattern
SearchIgnoreCase(pattern, col) == Contains(pattern, Lower(col))

\* ' '.join(names)
RECURSIVE Join(_)
Join(names) ==
    IF names = << >> THEN << >>
    ELSE IF Len(names) = 1 THEN names[1]
    ELSE names[1] \o <<" ">> \o Join(Tail(names))

\* column_names and text_data of detect_business_type (lines 96-97)
ColumnNames(cols) == [i \in 1..Len(cols) |-> Lower(cols[i])]

TextData(cols) == Join(ColumnNames(cols))

\* lines 105-116: whether one pattern of a business type is matched
PatternHit(business_type, pattern_type, i, cols) ==
    IF pattern_type = "keywords"
    THEN Contains(BusinessPatterns(business_type, pattern_type)[i],
                  TextData(cols))
    ELSE \E c \in 1..Len(cols) :
            SearchIgnoreCase(BusinessPatterns(business_type, pattern_type)[i],
                             ColumnNames(cols)[c])

Hits(business_type, pattern_type, cols) ==
    Cardinality({i \in 1..Len(BusinessPatterns(business_type, pattern_type)) :
                    PatternHit(business_type, pattern_type, i, cols)})

\* `score` of one business type
TypeScore(business_type, cols) ==
    Hits(business_type, "keywords", cols)
    + Hits(business_type, "date_patterns", cols)
    + Hits(business_type, "amount_patterns", cols)
    + Hits(business_type, "customer_patterns", cols)
    + Hits(business_type, "location_patterns", cols)

\* `total_patterns` of one business type
TypeTotal(business_type) ==
    Len(BusinessPatterns(business_type, "keywords"))
    + Len(BusinessPatterns(business_type, "date_patterns"))
    + Len(BusinessPatterns(business_type, "amount_patterns"))
    + Len(BusinessPatterns(business_type, "customer_patterns"))
    + Len(BusinessPatterns(business_type, "location_patterns"))

\* score / total_patterns of type i is below that of type j
RatioLess(cols, i, j) ==
    TypeScore(BusinessTypes[i], cols) * TypeTotal(BusinessTypes[j])
        < TypeScore(BusinessTypes[j], cols) * TypeTotal(BusinessTypes[i])

\* max(scores.items(), key=...): the first type with the largest ratio
BestMatch(cols) ==
    CHOOSE i \in 1..Len(BusinessTypes) :
        /\ \A j \in 1..Len(BusinessTypes) : ~RatioLess(cols, i, j)
        /\ \A j \in 1..(i - 1) : RatioLess(cols, j, i)

\* detect_business_type: every registered type has patterns, so `scores` is
\* never empty and line 125 is not reached
DetectBusinessType(cols) ==
    LET i == BestMatch(cols) IN
    [type |-> BusinessTypes[i],
     conf |-> <<TypeScore(BusinessTypes[i], cols), TypeTotal(BusinessTypes[i])>>]

\* self.business_patterns.get(business_type, {}).get(key, default)
PatternsFor(business_type, key) ==
    IF \E i \in 1..Len(BusinessTypes) : BusinessTypes[i] = business_type
    THEN BusinessPatterns(business_type, key)
    ELSE DefaultPatterns(key)

\* the columns, in their order, that some pattern of the list matches
MatchingCols(cols, patterns) ==
    SelectSeq(cols, LAMBDA col :
        \E i \in 1..Len(patterns) : SearchIgnoreCase(patterns[i], col))

ProductCols(cols) ==
    SelectSeq(cols, LAMBDA col :
        \E i \in 1..Len(product_keywords) :
            Contains(product_keywords[i], Lower(col)))

CanonicalFields == {"Date", "Amount", "CustomerID", "Location", "Product"}

\* the candidate columns of each canonical field
Candidates(cols, business_type, field) ==
    CASE field = "Date" ->
            MatchingCols(cols, PatternsFor(business_type, "date_patterns"))
      [] field = "Amount" ->
            MatchingCols(cols, PatternsFor(business_type, "amount_patterns"))
      [] field = "CustomerID" ->
            MatchingCols(cols, PatternsFor(business_type, "customer_patterns"))
      [] field = "Location" ->
            MatchingCols(cols, PatternsFor(business_type, "location_patterns"))
      [] field = "Product" -> ProductCols(cols)

\* a mapper that gives every canonical field a value, empty when no column
\* matches
AutoMapPadded(cols, business_type) ==
    [f \in CanonicalFields |->
        IF Candidates(cols, business_type, f) # << >>
        THEN Candidates(cols, business_type, f)[1] ELSE << >>]

AutoMapLowered(cols, business_type) ==
    LET mapped == {f \in CanonicalFields :
                      Candidates(cols, business_type, f) # << >>}
    IN [f \in mapped |-> Lower(Candidates(cols, business_type, f)[1])]

\* auto_map_columns: each field takes the first of its candidate columns
AutoMapColumns(cols, business_type) ==
    LET mapped == {f \in CanonicalFields :
                      Candidates(cols, business_type, f) # << >>}
    IN [f \in mapped |-> Candidates(cols, business_type, f)[1]]

\* raw column names of the uploaded files
ColumnPool ==
    {<<"T", "x", "n", "D", "a", "t", "e">>, <<"S", "K", "U">>,
     <<"T", "o", "t", "a", "l">>, <<"S", "h", "o", "p", "p", "e", "r">>,
     <<"O", "r", "d", "e", "r", "T", "o", "t", "a", "l">>,
     <<"f", "o", "o">>, <<"C", "i", "t", "y">>}

\* the header TxnDate, SKU, Total, Shopper
ShopHeader ==
    <<<<"T", "x", "n", "D", "a", "t", "e">>, <<"S", "K", "U">>,
      <<"T", "o", "t", "a", "l">>, <<"S", "h", "o", "p", "p", "e", "r">>>>

\* the header of a venue list: the one column location
VenueHeader == <<<<"l", "o", "c", "a", "t", "i", "o", "n">>>>

\* field.lower() of fuzzy_column_match, for the canonical fields
FieldLower(field) ==
    CASE field = "Date" -> <<"d", "a", "t", "e">>
      [] field = "Amount" -> <<"a", "m", "o", "u", "n", "t">>
      [] field = "CustomerID" ->
            <<"c", "u", "s", "t", "o", "m", "e", "r", "i", "d">>
      [] field = "Location" -> <<"l", "o", "c", "a", "t", "i", "o", "n">>
      [] field = "Product" -> <<"p", "r", "o", "d", "u", "c", "t">>

\* header rows: up to MaxCols distinct names, in any order, ShopHeader and
\* VenueHeader
ColumnLists ==
    {cols \in UNION {[1..n -> ColumnPool] : n \in 0..MaxCols} :
        \A i, j \in 1..Len(cols) : i # j => cols[i] # cols[j]}
    \cup {ShopHeader, VenueHeader}

\* the business types auto_map_columns is called with
MapDomains ==
    {BusinessTypes[i] : i \in 1..Len(BusinessTypes)}
        \cup {"retail", "general_business"}

InitMapper ==
    /\ mcols \in ColumnLists
    /\ mpc = "loaded"
    /\ mtype = ""
    /\ mconf = <<0, 1>>
    /\ mfor = ""
    /\ mapping = << >>

MapperIdle ==
    /\ mcols = << >>
    /\ mpc = "off"
    /\ mtype = ""
    /\ mconf = <<0, 1>>
    /\ mfor = ""
    /\ mapping = << >>

\* detect_business_type(df)
Detect ==
    /\ mpc = "loaded"
    /\ LET best_match == DetectBusinessType(mcols) IN
       /\ mtype' = best_match.type
       /\ mconf' = best_match.conf
    /\ mpc' = "detected"
    /\ UNCHANGED <<mcols, mfor, mapping>>

\* auto_map_columns(df, business_type), with the detected or a given type
AutoMap ==
    /\ mpc = "detected"
    /\ \E business_type \in MapDomains :
          /\ mfor' = business_type
          /\ mapping' = AutoMapColumns(mcols, business_type)
    /\ mpc' = "mapped"
    /\ UNCHANGED <<mcols, mtype, mconf>>

(* ---------------- BusinessInsightsConfig: the capability gate ---------- *)
\* the keys of self.domains
CatalogDomains == {"retail", "real_estate", "restaurant"}

TierNames == {"tier1_essential", "tier2_enhanced", "tier3_advanced"}

\* domain["tiers"][tier]["fields"]
TierFieldList(domain_key, tier_name) ==
    CASE domain_key = "retail" /\ tier_name = "tier1_essential" ->
            <<"Date", "Product", "Amount">>
      [] domain_key = "retail" /\ tier_name = "tier2_enhanced" ->
            <<"CustomerID", "Location", "Channel">>
      [] domain_key = "retail" /\ tier_name = "tier3_advanced" ->
            <<"OrderID", "StoreID", "Gender", "Age", "Cost", "Inventory",
              "IsReturned", "Feedback">>
      [] domain_key = "real_estate" /\ tier_name = "tier1_essential" ->
            <<"SaleDate", "Suburb", "SalePrice">>
      [] domain_key = "real_estate" /\ tier_name = "tier2_enhanced" ->
            <<"Agent", "PropertyType">>
      [] domain_key = "real_estate" /\ tier_name = "tier3_advanced" ->
            <<"Bedrooms", "Bathrooms", "LandSize", "YearBuilt", "BuyerID">>
      [] domain_key = "restaurant" /\ tier_name = "tier1_essential" ->
            <<"Date", "MenuItem", "Amount">>
      [] domain_key = "restaurant" /\ tier_name = "tier2_enhanced" ->
            <<"CustomerID", "TimeSlot", "TableID">>
      [] domain_key = "restaurant" /\ tier_name = "tier3_advanced" ->
            <<"OrderID", "Category", "Cost", "Rating", "WaitTime">>

\* all(field in available_fields for field in required_fields)
AllFieldsAvailable(required_fields, available_fields) ==
    \A i \in 1..Len(required_fields) : required_fields[i] \in available_fields

\* the order determine_analysis_tier checks the tiers in
TierCheckOrder == <<"tier3_advanced", "tier2_enhanced", "tier1_essential">>

\* a gate that only grants a tier when every tier below it is covered too
DetermineTierCumulative(domain_key, available_fields) ==
    IF domain_key \notin CatalogDomains THEN "tier1_essential"
    ELSE IF \A i \in 1..3 :
               AllFieldsAvailable(TierFieldList(domain_key, TierCheckOrder[i]),
                                  available_fields)
    THEN "tier3_advanced"
    ELSE IF \A i \in 2..3 :
               AllFieldsAvailable(TierFieldList(domain_key, TierCheckOrder[i]),
                                  available_fields)
    THEN "tier2_enhanced"
    ELSE "tier1_essential"

\* a gate that checks the tiers lowest first
DetermineTierLowestFirst(domain_key, available_fields) ==
    IF domain_key \notin CatalogDomains THEN "tier1_essential"
    ELSE LET passing ==
                 {i \in 1..Len(TierCheckOrder) :
                     AllFieldsAvailable(
                         TierFieldList(domain_key, TierCheckOrder[i]),
                         available_fields)}
         IN IF passing = {} THEN "tier1_essential"
            ELSE TierCheckOrder[CHOOSE i \in passing :
                                    \A j \in passing : i >= j]

\* determine_analysis_tier: the first tier, most advanced first, whose
\* fields are all available; tier1_essential when there is none or the
\* domain is unknown
DetermineAnalysisTier(domain_key, available_fields) ==
    IF domain_key \notin CatalogDomains THEN "tier1_essential"
    ELSE LET passing ==
                 {i \in 1..Len(TierCheckOrder) :
                     AllFieldsAvailable(
                         TierFieldList(domain_key, TierCheckOrder[i]),
                         available_fields)}
         IN IF passing = {} THEN "tier1_essential"
            ELSE TierCheckOrder[CHOOSE i \in passing :
                                    \A j \in passing : i <= j]

\* the field names of one catalog domain
DomainFields(domain_key) ==
    UNION {{TierFieldList(domain_key, t)[i] :
               i \in 1..Len(TierFieldList(domain_key, t))} : t \in TierNames}

\* the domains the gate is asked about: the catalog and one outside it
GateDomains == CatalogDomains \cup {"healthcare"}

GateFields(domain_key) ==
    IF domain_key \in CatalogDomains THEN DomainFields(domain_key)
    ELSE {"Date", "Product", "Amount"}

NoResults ==
    [kind |-> "none", exc |-> "", tier |-> "", ai_insights |-> << >>,
     confidence |-> 0, key_metrics |-> << >>, visualizations |-> {},
     recommendations |-> << >>]

\* UnifiedAnalyticsEngine.__init__, before any analyze_data call
EngineIdle ==
    /\ tier_mapping = << >>
    /\ tier_arg = ""
    /\ tier_frame = [rows |-> 0, cols |-> << >>]
    /\ engine_results = NoResults
    /\ engine_cache = << >>

InitTier ==
    /\ tier_domain \in GateDomains
    /\ tier_fields \in SUBSET GateFields(tier_domain)
    /\ tier = ""
    /\ tpc = "ready"
    /\ EngineIdle

TierIdle ==
    /\ tier_domain = ""
    /\ tier_fields = {}
    /\ tier = ""
    /\ tpc = "off"
    /\ EngineIdle

\* determine_analysis_tier(domain_key, available_fields)
DetermineTier ==
    /\ tpc = "ready"
    /\ tier' = DetermineAnalysisTier(tier_domain, tier_fields)
    /\ tpc' = "done"
    /\ UNCHANGED <<tier_domain, tier_fields, tier_mapping, tier_arg,
                   tier_frame, engine_results, engine_cache>>

(* ------------- UnifiedAnalyticsEngine: analyze_data -------------------- *)
\* the raw column name a canonical field has in the uploaded file: the
\* canonical name itself, or the name used by a shop export
RawName(header, field) ==
    IF header = "canonical" THEN field
    ELSE CASE field = "Date" -> "TxnDate"
           [] field = "Product" -> "SKU"
           [] field = "Amount" -> "Total"
           [] field = "CustomerID" -> "Shopper"
           [] field = "Location" -> "City"
           [] field = "Channel" -> "Source"
           [] OTHER -> field

\* available_fields of analyze_data (line 39): the values of the mapping,
\* the raw column names, or df.columns when the mapping is empty or None
AvailableFields(field_map, columns) ==
    IF field_map # << >> THEN {field_map[k] : k \in DOMAIN field_map} ELSE columns

\* The frames given to analyze_data have one row without nulls: one sale of
\* amount 1 (price 1) of one product to one customer on one day.
\* _calculate_key_metrics: the metrics of the fields the mapping names
\* (`mapping and "Amount" in mapping`), for the two domains it knows
CalculateKeyMetrics(domain, field_map) ==
    LET has(f) == f \in DOMAIN field_map
        names ==
            IF domain = "retail"
            THEN (IF has("Amount")
                  THEN {"total_revenue", "average_transaction",
                        "median_transaction", "max_transaction",
                        "min_transaction"} ELSE {})
                 \cup (IF has("Product")
                       THEN {"total_products", "top_product"} ELSE {})
                 \cup (IF has("CustomerID")
                       THEN {"total_customers", "repeat_customers",
                             "retention_rate"} ELSE {})
                 \cup (IF has("Date")
                       THEN {"date_range_days", "earliest_date",
                             "latest_date"} ELSE {})
            ELSE IF domain = "real_estate"
            THEN (IF has("SalePrice")
                  THEN {"total_sales_value", "average_price", "median_price",
                        "max_price", "min_price"} ELSE {})
                 \cup (IF has("Suburb")
                       THEN {"total_suburbs", "top_suburb"} ELSE {})
            ELSE {}
    IN [n \in names |->
          CASE n \in {"top_product", "top_suburb"} -> Str("the one sold")
            [] n \in {"earliest_date", "latest_date"} -> Str("the one day")
            [] n \in {"repeat_customers", "retention_rate",
                      "date_range_days"} -> Num(0)
            [] OTHER -> Num(1)]

\* _assess_data_quality(df)["overall_score"]: the mean completeness (100
\* for every column of a frame without nulls) and the mean consistency (0
\* for a text column of one row, 0 when there is none), halved
OverallScore(df) == IF df.cols = << >> THEN 0 ELSE (100 + 0) \div 2

\* _create_visualizations: the charts drawn for the mapped fields
CreateVisualizations(domain, field_map) ==
    LET has(f) == f \in DOMAIN field_map
    IN IF domain = "retail"
       THEN (IF has("Date") /\ has("Amount") THEN {"revenue_trend"} ELSE {})
            \cup (IF has("Product") /\ has("Amount")
                  THEN {"top_products"} ELSE {})
            \cup (IF has("CustomerID") /\ has("Amount")
                  THEN {"customer_distribution"} ELSE {})
       ELSE IF domain = "real_estate"
       THEN (IF has("SalePrice") THEN {"price_distribution"} ELSE {})
            \cup (IF has("Suburb") /\ has("SalePrice")
                  THEN {"top_suburbs"} ELSE {})
       ELSE {}

\* analysis_data of _generate_insights (lines 272-282)
AnalysisData(df, domain, tier_name, metrics) ==
    LET base == [domain |-> Str(domain), tier |-> Str(tier_name),
                 total_records |-> Num(df.rows),
                 total_columns |-> Num(Len(df.cols)),
                 columns |-> List([i \in 1..Len(df.cols) |-> Str(df.cols[i])]),
                 data_quality |-> Num(OverallScore(df))]
    IN [k \in DOMAIN base \cup DOMAIN metrics |->
          IF k \in DOMAIN metrics THEN metrics[k] ELSE base[k]]

\* _generate_recommendations: metrics[...] raises KeyError for a metric
\* that was not calculated
GenerateRecommendations(df, domain, metrics) ==
    LET m(n) == metrics[n].v[1]
        missing ==
            IF domain = "retail" /\ "total_revenue" \in DOMAIN metrics
            THEN {"retention_rate", "total_products"} \ DOMAIN metrics
            ELSE IF domain = "real_estate"
                    /\ "total_sales_value" \in DOMAIN metrics
            THEN {"total_suburbs"} \ DOMAIN metrics
            ELSE {}
        retail ==
            (IF "total_revenue" \in DOMAIN metrics
             THEN (IF m("average_transaction") < 100
                   THEN <<"Consider upselling strategies">> ELSE << >>)
                  \o (IF m("retention_rate") < 30
                      THEN <<"Focus on customer retention programs">>
                      ELSE << >>)
                  \o (IF m("total_products") > 50
                      THEN <<"Analyze product performance">> ELSE << >>)
             ELSE << >>)
            \o (IF OverallScore(df) < 80
                THEN <<"Improve data quality">> ELSE << >>)
        real_estate ==
            IF "total_sales_value" \in DOMAIN metrics
            THEN (IF 2 * m("average_price") > 3 * m("median_price")
                  THEN <<"Consider market segmentation">> ELSE << >>)
                 \o (IF m("total_suburbs") > 20
                     THEN <<"Focus on top-performing suburbs">> ELSE << >>)
            ELSE << >>
    IN IF missing # {}
       THEN [kind |-> "raise", exc |-> "KeyError", val |-> << >>]
       ELSE [kind |-> "ok", exc |-> "",
             val |-> (IF domain = "retail" THEN retail
                      ELSE IF domain = "real_estate" THEN real_estate
                      ELSE << >>)
                     \o (IF df.rows < 100
                         THEN <<"Collect more data">> ELSE << >>)]

\* the arguments of the analyze_data calls: a domain (two the insight
\* client knows and one it does not), a frame holding the fields of
\* tier_fields in the order of the catalog under the names of a header
\* (canonical or a shop export's), a mapping naming all of them or none,
\* a tier or none
InitEngine ==
    /\ tier_domain \in {"retail", "real_estate", "healthcare"}
    /\ tier_fields \in
          {{}, {"Date", "Product", "Amount"}, {"SaleDate", "Suburb", "SalePrice"},
           {"SaleDate", "SalePrice"}, {"CustomerID", "Location", "Channel"},
           {"Date", "Product", "Amount", "CustomerID", "Location", "Channel"}}
    /\ tier_fields \subseteq GateFields(tier_domain)
    /\ \E header \in {"canonical", "shop"}, mapped \in {tier_fields, {}} :
          LET order == IF tier_domain \in CatalogDomains
                       THEN TierFieldList(tier_domain, "tier1_essential")
                            \o TierFieldList(tier_domain, "tier2_enhanced")
                            \o TierFieldList(tier_domain, "tier3_advanced")
                       ELSE <<"Date", "Product", "Amount">>
              fields == SelectSeq(order, LAMBDA f : f \in tier_fields)
          IN /\ tier_frame = [rows |-> 1,
                              cols |-> [i \in 1..Len(fields) |->
                                           RawName(header, fields[i])]]
             /\ tier_mapping = [f \in mapped |-> RawName(header, f)]
    /\ tier_arg \in {"", "tier2_enhanced"}
    /\ tier = ""
    /\ tpc = "ready"
    /\ engine_results = NoResults
    /\ engine_cache = << >>

\* analyze_data(df, domain, mapping, tier) up to its call of the insight
\* client (lines 38-59, 268-282): the tier is the one given, else the gate's
\* on the mapping's values or, without a mapping, on the columns
AnalyzeData ==
    /\ tpc \in {"ready", "analyzed", "raised"}
    /\ pc = "idle"
    /\ ncalls < MaxCalls
    /\ LET tier_name ==
               IF tier_arg # "" THEN tier_arg
               ELSE DetermineAnalysisTier(
                        tier_domain,
                        AvailableFields(tier_mapping,
                            {tier_frame.cols[i] :
                                i \in 1..Len(tier_frame.cols)}))
       IN /\ tier' = tier_name
          /\ Start(AnalysisData(tier_frame, tier_domain, tier_name,
                       CalculateKeyMetrics(tier_domain, tier_mapping)),
                   tier_domain, "comprehensive_analysis", "engine")
    /\ tpc' = "insights"
    /\ engine_results' = NoResults
    /\ UNCHANGED <<tier_domain, tier_fields, tier_mapping, tier_arg,
                   tier_frame, engine_cache, now, last, disp>>

\* analyze_data after the client returned or raised (lines 284-295, 60-66):
\* the insights, the recommendations, and the results stored in self.cache
AnalyzeDataFinish ==
    /\ tpc = "insights"
    /\ pc = "done"
    /\ caller = "engine"
    /\ LET metrics == CalculateKeyMetrics(tier_domain, tier_mapping)
           recommendations ==
               GenerateRecommendations(tier_frame, tier_domain, metrics)
           results ==
               [kind |-> "result", exc |-> "", tier |-> tier,
                ai_insights |->
                    IF ret.kind = "text" THEN ret.text
                    ELSE <<"AI insights temporarily unavailable: ", ret.exc>>,
                confidence |-> IF ret.kind = "text" THEN 85 ELSE 30,
                key_metrics |-> metrics,
                visualizations |->
                    CreateVisualizations(tier_domain, tier_mapping),
                recommendations |-> recommendations.val]
           cache_key == <<tier_domain, tier, tier_frame.rows,
                          <<"hash", tier_frame.cols>>>>
       IN IF recommendations.kind = "raise"
          THEN /\ tpc' = "raised"
               /\ engine_results' = [NoResults EXCEPT !.kind = "raise",
                                        !.exc = recommendations.exc]
               /\ UNCHANGED engine_cache
          ELSE /\ tpc' = "analyzed"
               /\ engine_results' = results
               /\ engine_cache' =
                     [k \in DOMAIN engine_cache \cup {cache_key} |->
                         IF k = cache_key THEN results ELSE engine_cache[k]]
    /\ pc' = "idle"
    /\ Forget
    /\ UNCHANGED <<tier_domain, tier_fields, tier, tier_mapping, tier_arg,
                   tier_frame, cache, now, ncalls, last, disp>>

\* UnifiedAnalyticsEngine.clear_cache: self.cache.clear(), between calls
EngineClearCache ==
    /\ tpc \in {"ready", "analyzed", "raised"}
    /\ pc = "idle"
    /\ engine_cache # << >>
    /\ engine_cache' = << >>
    /\ UNCHANGED <<tier_domain, tier_fields, tier, tpc, tier_mapping,
                   tier_arg, tier_frame, engine_results>>
    /\ UNCHANGED clientVars

(* ------------------- AdvancedDataProfiler: data profile ---------------- *)
\* A frame is its column names and its rows of cells; a cell holds an
\* integer or is null (NaN). Every column is numeric.
\* a frame of `rows` rows and `ncols` columns: row i holds i in every
\* column; the rows 2, 3, ... hold a far value (1000 + i) in column c,
\* outliers[c] of them; the next MaxNulls rows hold up to `nulls` nulls in
\* the last column; the last `dups` rows repeat row 1
Dataset(rows, ncols, nulls, dups, outliers) ==
    LET cell(i, c) ==
            IF i > rows - dups THEN [null |-> FALSE, v |-> 1]
            ELSE IF c = ncols /\ i > 1 + MaxOutliers
                    /\ i <= 1 + MaxOutliers + nulls
            THEN [null |-> TRUE, v |-> 0]
            ELSE IF i > 1 /\ i <= 1 + outliers[c]
            THEN [null |-> FALSE, v |-> 1000 + i]
            ELSE [null |-> FALSE, v |-> i]
    IN [cols |-> SubSeq(<<"Amount", "Cost">>, 1, ncols),
        data |-> [i \in 1..rows |-> [c \in 1..ncols |-> cell(i, c)]]]

\* df.isnull().sum().sum()
NullCells(df) ==
    Cardinality({<<i, c>> \in (1..Len(df.data)) \X (1..Len(df.cols)) :
                    df.data[i][c].null})

\* df.duplicated().sum(): the rows equal to an earlier row, a null cell
\* being equal to a null cell
DuplicatedRows(df) ==
    Cardinality({i \in 1..Len(df.data) :
                    \E j \in 1..(i - 1) : df.data[j] = df.data[i]})

\* hash(str(df.columns.tolist())), taken as collision free
HashColumns(cols) == <<"hash", cols>>

\* a fingerprint that leaves the business type out
ProfileIdNoDomain(business_type, df) ==
    <<"", Len(df.data), HashColumns(df.cols)>>

\* profile_id (line 27)
ProfileId(business_type, df) ==
    <<business_type, Len(df.data), HashColumns(df.cols)>>

\* series.quantile(q / 4), times 4: linear interpolation between the two
\* sorted values around position (n - 1) * q / 4
Quantile4(sorted, q) ==
    LET position == (Len(sorted) - 1) * q
        lower == position \div 4
        fraction == position % 4
    IN IF fraction = 0 THEN 4 * sorted[lower + 1]
       ELSE 4 * sorted[lower + 1]
                + fraction * (sorted[lower + 2] - sorted[lower + 1])

\* _count_outliers(df[col]): a series of fewer than 4 cells has none; the
\* quartiles are those of the cells that are not null, and a null cell is
\* outside no fence (Q1, Q3 and IQR are held times 4, the bounds times 8)
CountOutliers(df, c) ==
    LET series == [i \in 1..Len(df.data) |-> df.data[i][c]]
        present == SelectSeq(series, LAMBDA x : ~x.null)
        values == [i \in 1..Len(present) |-> present[i].v]
        sorted == SortSeq(values, LAMBDA x, y : x < y)
        Q1 == Quantile4(sorted, 1)
        Q3 == Quantile4(sorted, 3)
        IQR == Q3 - Q1
        lower_bound == 2 * Q1 - 3 * IQR
        upper_bound == 2 * Q3 + 3 * IQR
    IN IF Len(series) < 4 \/ values = << >> THEN 0
       ELSE Cardinality({i \in 1..Len(values) :
                \/ 8 * values[i] < lower_bound
                \/ 8 * values[i] > upper_bound})

\* the issue strings of _assess_data_quality: the text before the figure,
\* and the figure (a ratio num/den for the percentages, a count otherwise)
Issue(label, num, den) == [label |-> label, num |-> num, den |-> den]

\* the recommendations one issue adds (lines 410-415)
RecommendationsFor(issue) ==
    (IF Contains(<<"m", "i", "s", "s", "i", "n", "g", " ", "v", "a", "l",
                   "u", "e", "s">>, Lower(issue.label))
     THEN <<"Consider imputation strategies for missing values">>
     ELSE << >>)
    \o (IF Contains(<<"d", "u", "p", "l", "i", "c", "a", "t", "e">>,
                    Lower(issue.label))
        THEN <<"Review and remove duplicate records if appropriate">>
        ELSE << >>)
    \o (IF Contains(<<"o", "u", "t", "l", "i", "e", "r">>,
                    Lower(issue.label))
        THEN <<"Investigate outliers for data quality issues">>
        ELSE << >>)

RECURSIVE RecommendationsOf(_)
RecommendationsOf(issues) ==
    IF issues = << >> THEN << >>
    ELSE RecommendationsFor(Head(issues)) \o RecommendationsOf(Tail(issues))

\* _generate_quality_recommendations(issues)
GenerateQualityRecommendations(issues) ==
    IF RecommendationsOf(issues) = << >>
    THEN <<"Data quality looks good! Consider adding more data for better insights">>
    ELSE RecommendationsOf(issues)

\* the issues list of _assess_data_quality
QualityIssues(df, missing_high, duplicate_high, outlier_issues) ==
    (IF missing_high
     THEN <<Issue(<<"H", "i", "g", "h", " ", "m", "i", "s", "s", "i", "n",
                    "g", " ", "v", "a", "l", "u", "e", "s">>,
                  NullCells(df), Len(df.data) * Len(df.cols))>>
     ELSE << >>)
    \o (IF duplicate_high
        THEN <<Issue(<<"D", "u", "p", "l", "i", "c", "a", "t", "e", " ",
                       "r", "o", "w", "s">>, DuplicatedRows(df),
                     Len(df.data))>>
        ELSE << >>)
    \o (IF outlier_issues > 0
        THEN <<Issue(<<"O", "u", "t", "l", "i", "e", "r", "s", " ", "d",
                       "e", "t", "e", "c", "t", "e", "d">>,
                     outlier_issues, 1)>>
        ELSE << >>)

\* a score that deducts for outliers once per column
QualityPerColumn(df) ==
    LET rows == Len(df.data)
        missing_high == NullCells(df) * 100 > 10 * (rows * Len(df.cols))
        duplicate_high == DuplicatedRows(df) * 100 > 5 * rows
        outlier_issues ==
            Cardinality({c \in 1..Len(df.cols) :
                            CountOutliers(df, c) * 100 > rows * 5})
        quality_score ==
            100 - (IF missing_high THEN 20 ELSE 0)
                - (IF duplicate_high THEN 15 ELSE 0)
                - 10 * outlier_issues
        issues ==
            QualityIssues(df, missing_high, duplicate_high, outlier_issues)
    IN [quality_score |-> IF quality_score < 0 THEN 0 ELSE quality_score,
        outlier_issues |-> outlier_issues,
        issues |-> issues,
        recommendations |-> GenerateQualityRecommendations(issues)]

\* _assess_data_quality: missing_percentage > 10, duplicate_percentage > 5
\* and outliers > len(df) * 0.05, compared exactly; on a frame without rows
\* the percentages are nan and no comparison holds
AssessDataQuality(df) ==
    LET rows == Len(df.data)
        missing_high == NullCells(df) * 100 > 10 * (rows * Len(df.cols))
        duplicate_high == DuplicatedRows(df) * 100 > 5 * rows
        outlier_issues ==
            Cardinality({c \in 1..Len(df.cols) :
                            CountOutliers(df, c) * 100 > rows * 5})
        quality_score ==
            100 - (IF missing_high THEN 20 ELSE 0)
                - (IF duplicate_high THEN 15 ELSE 0)
                - (IF outlier_issues > 0 THEN 10 ELSE 0)
        issues ==
            QualityIssues(df, missing_high, duplicate_high, outlier_issues)
    IN [quality_score |-> IF quality_score < 0 THEN 0 ELSE quality_score,
        outlier_issues |-> outlier_issues,
        issues |-> issues,
        recommendations |-> GenerateQualityRecommendations(issues)]

\* the profile built by lines 32-43
BuildProfile(df, business_type, t) ==
    [business_type |-> business_type,
     total_rows |-> Len(df.data),
     column_names |-> df.cols,
     missing_cells |-> NullCells(df),
     duplicate_rows |-> DuplicatedRows(df),
     data_quality |-> AssessDataQuality(df),
     timestamp |-> t]

\* the datasets profiled: two of the same shape and different content
\* (the second has 3 null cells and 2 far values), one with other row
\* count, one with other columns
ProfileFrames ==
    {Dataset(20, 1, 0, 0, <<0>>),
     Dataset(20, 1, 3, 0, <<2>>),
     Dataset(3, 1, 0, 0, <<0>>),
     Dataset(20, 2, 0, 2, <<0, 0>>)}

ProfileTypes == {"general", "retail_ecommerce"}

InitProfiler ==
    /\ profile_cache = << >>
    /\ pclock = 0
    /\ plog = << >>

ProfilerIdle == InitProfiler

\* create_comprehensive_profile(df, business_type)
CreateProfile ==
    /\ Len(plog) < MaxProfiles
    /\ \E df \in ProfileFrames, business_type \in ProfileTypes,
          t \in {pclock, pclock + 1} :
          LET profile_id == ProfileId(business_type, df) IN
          /\ pclock' = t
          /\ IF profile_id \in DOMAIN profile_cache
             THEN /\ plog' = Append(plog,
                        [df |-> df, business_type |-> business_type,
                         profile |-> profile_cache[profile_id],
                         computed |-> FALSE])
                  /\ UNCHANGED profile_cache
             ELSE LET profile == BuildProfile(df, business_type, t) IN
                  /\ profile_cache' =
                        [k \in DOMAIN profile_cache \cup {profile_id} |->
                            IF k = profile_id THEN profile
                            ELSE profile_cache[k]]
                  /\ plog' = Append(plog,
                        [df |-> df, business_type |-> business_type,
                         profile |-> profile, computed |-> TRUE])

\* the frames whose quality is assessed
QualityFrames ==
    {Dataset(rows, ncols, nulls, dups, outliers) :
        rows \in {0, 3, 20, 40}, ncols \in 1..2,
        nulls \in 0..MaxNulls, dups \in 0..MaxDups,
        outliers \in [1..2 -> 0..MaxOutliers]}

NoQuality ==
    [quality_score |-> 100, outlier_issues |-> 0, issues |-> << >>,
     recommendations |-> << >>]

InitQuality ==
    /\ qframe \in QualityFrames
    /\ quality = NoQuality
    /\ qpc = "ready"

QualityIdle ==
    /\ qframe = [cols |-> << >>, data |-> << >>]
    /\ quality = NoQuality
    /\ qpc = "off"

\* _assess_data_quality(df)
AssessQuality ==
    /\ qpc = "ready"
    /\ quality' = AssessDataQuality(qframe)
    /\ qpc' = "done"
    /\ UNCHANGED qframe

(* ---------------- AdvancedDataProfiler: the outlier count -------------- *)
\* a count that takes the values on the fences as outliers too
CountOutliersInclusive(series) ==
    IF Len(series) < 4 THEN 0
    ELSE LET sorted == SortSeq(series, LAMBDA x, y : x < y)
             Q1 == Quantile4(sorted, 1)
             Q3 == Quantile4(sorted, 3)
             IQR == Q3 - Q1
             lower_bound == 2 * Q1 - 3 * IQR
             upper_bound == 2 * Q3 + 3 * IQR
         IN Cardinality({i \in 1..Len(series) :
                \/ 8 * series[i] <= lower_bound
                \/ 8 * series[i] >= upper_bound})

\* _count_outliers(series) for a series of integers without nulls; Q1, Q3
\* and IQR are held times 4, the bounds times 8
CountSeriesOutliers(series) ==
    IF Len(series) < 4 THEN 0
    ELSE LET sorted == SortSeq(series, LAMBDA x, y : x < y)
             Q1 == Quantile4(sorted, 1)
             Q3 == Quantile4(sorted, 3)
             IQR == Q3 - Q1
             lower_bound == 2 * Q1 - 3 * IQR
             upper_bound == 2 * Q3 + 3 * IQR
         IN Cardinality({i \in 1..Len(series) :
                \/ 8 * series[i] < lower_bound
                \/ 8 * series[i] > upper_bound})

\* the example series of the documentation
ExampleSeries == <<10, 12, 11, 13, 9, 500>>

SeriesInputs ==
    UNION {[1..n -> {-3, 0, 2, 5}] : n \in 0..MaxSeries}
        \cup {ExampleSeries}

InitOutlier ==
    /\ oseries \in SeriesInputs
    /\ ocount = 0
    /\ opc = "ready"

OutlierIdle ==
    /\ oseries = << >>
    /\ ocount = 0
    /\ opc = "off"

\* _count_outliers(series)
CountOutliersCall ==
    /\ opc = "ready"
    /\ ocount' = CountSeriesOutliers(oseries)
    /\ opc' = "counted"
    /\ UNCHANGED oseries

(* ------------------- DataGenieChatbot and its interface ---------------- *)
\* Two datasets are uploaded (A, B), under two business types, and two
\* questions are asked.
NoProfile == [dataset |-> "", business_type |-> ""]

NoInit == [called |-> FALSE, df |-> "", business_type |-> ""]

\* self.profiler.create_comprehensive_profile(df, business_type): the
\* profile of that dataset (the datasets differ in shape)
ChatProfile(df, business_type) ==
    [dataset |-> df, business_type |-> business_type]

\* the entries process_question appends (lines 53-57 and 66-72), without
\* their timestamps; the answer is generated from the data context
UserEntry(question) == [type |-> "user", content |-> <<question>>]

AssistantEntry(question, context) ==
    [type |-> "assistant", content |-> <<question, context.dataset>>]

InitChat ==
    /\ uploaded = ""
    /\ datagenie = FALSE
    /\ ss_context = NoProfile
    /\ ss_has_history = FALSE
    /\ ss_history = << >>
    /\ ss_initialized = FALSE
    /\ genie_data_context = NoProfile
    /\ conversation_history = << >>
    /\ shared = FALSE
    /\ init_args = NoInit
    /\ chat_pc = "idle"

ChatIdle ==
    /\ uploaded = ""
    /\ datagenie = FALSE
    /\ ss_context = NoProfile
    /\ ss_has_history = FALSE
    /\ ss_history = << >>
    /\ ss_initialized = FALSE
    /\ genie_data_context = NoProfile
    /\ conversation_history = << >>
    /\ shared = FALSE
    /\ init_args = NoInit
    /\ chat_pc = "off"

\* smart_dashboard lines 34-44: a file is read and stored as uploaded_data
Upload ==
    /\ chat_pc # "off"
    /\ \E df \in {"A", "B"} : uploaded' = df
    /\ chat_pc' = "uploaded"
    /\ UNCHANGED <<datagenie, ss_context, ss_has_history, ss_history,
                   ss_initialized, genie_data_context, conversation_history, shared,
                   init_args>>

\* initialize_session(df, business_type), lines 31-47
InitializeSession(df, business_type) ==
    LET profile == ChatProfile(df, business_type)
        context == IF ss_context = NoProfile THEN profile ELSE ss_context
        history == IF ss_has_history THEN ss_history ELSE << >>
    IN /\ ss_context' = context
       /\ ss_has_history' = TRUE
       /\ ss_history' = history
       /\ conversation_history' = history
       /\ shared' = TRUE
       /\ genie_data_context' = context
       /\ init_args' = [called |-> TRUE, df |-> df,
                        business_type |-> business_type]

\* render_datagenie_interface, lines 66-90: the chatbot is created once,
\* and the session is initialized unless it is marked initialized
RenderInterface ==
    /\ chat_pc \in {"uploaded", "ready"}
    /\ uploaded # ""
    /\ datagenie' = TRUE
    /\ ss_initialized' = TRUE
    /\ IF ~ss_initialized
       THEN InitializeSession(uploaded, "general")
       ELSE UNCHANGED <<ss_context, ss_has_history, ss_history, genie_data_context,
                        conversation_history, shared, init_args>>
    /\ chat_pc' = "ready"
    /\ UNCHANGED uploaded

\* initialize_session called on the session's chatbot with the uploaded data
InitializeSessionCall ==
    /\ chat_pc = "ready"
    /\ datagenie
    /\ \E business_type \in {"general", "retail_ecommerce"} :
          InitializeSession(uploaded, business_type)
    /\ UNCHANGED <<uploaded, datagenie, ss_initialized, chat_pc>>

\* process_question of the interface (lines 231-251) calling
\* DataGenieChatbot.process_question (lines 49-77): the context lookup or
\* the response generation may raise, and the interface catches it
Ask ==
    /\ chat_pc = "ready"
    /\ datagenie
    /\ Len(conversation_history) + 2 <= MaxHistory
    /\ \E question \in {"q1", "q2"}, raises \in BOOLEAN :
          LET asked == Append(conversation_history, UserEntry(question))
              answered ==
                  Append(asked, AssistantEntry(question, genie_data_context))
          IN IF raises
             THEN /\ conversation_history' = asked
                  /\ ss_history' = IF shared THEN asked ELSE ss_history
                  /\ UNCHANGED <<ss_has_history, shared>>
             ELSE /\ conversation_history' = answered
                  /\ ss_history' = answered
                  /\ ss_has_history' = TRUE
                  /\ shared' = TRUE
    /\ UNCHANGED <<uploaded, datagenie, ss_context, ss_initialized,
                   genie_data_context, init_args, chat_pc>>

\* clear_conversation, lines 1346-1350: two new empty lists
ClearConversation ==
    /\ chat_pc = "ready"
    /\ datagenie
    /\ conversation_history' = << >>
    /\ ss_history' = << >>
    /\ shared' = FALSE
    /\ UNCHANGED <<uploaded, datagenie, ss_context, ss_has_history,
                   ss_initialized, genie_data_context, init_args, chat_pc>>

(* ----------------------------- the systems ----------------------------- *)
NextMapper ==
    \/ Detect /\ UNCHANGED <<clientVars, tierVars, profVars, qualVars, outVars, chatVars>>
    \/ AutoMap /\ UNCHANGED <<clientVars, tierVars, profVars, qualVars, outVars, chatVars>>

InitMapperSystem ==
    InitClient /\ InitMapper /\ TierIdle /\ ProfilerIdle /\ QualityIdle
        /\ OutlierIdle /\ ChatIdle

SpecMapper == InitMapperSystem /\ [][NextMapper]_vars

NextTier ==
    DetermineTier /\ UNCHANGED <<clientVars, mapVars, profVars, qualVars, outVars, chatVars>>

InitTierSystem ==
    InitClient /\ MapperIdle /\ InitTier /\ ProfilerIdle /\ QualityIdle
        /\ OutlierIdle /\ ChatIdle

SpecTier == InitTierSystem /\ [][NextTier]_vars

\* analyze_data and its calls of the shared insight client
NextEngine ==
    \/ Tick /\ UNCHANGED <<mapVars, tierVars, profVars, qualVars, outVars, chatVars>>
    \/ AnalyzeData /\ UNCHANGED <<mapVars, profVars, qualVars, outVars, chatVars>>
    \/ Invoke /\ UNCHANGED <<mapVars, tierVars, profVars, qualVars, outVars, chatVars>>
    \/ AnalyzeDataFinish /\ UNCHANGED <<mapVars, profVars, qualVars, outVars, chatVars>>
    \/ EngineClearCache /\ UNCHANGED <<mapVars, profVars, qualVars, outVars, chatVars>>

InitEngineSystem ==
    InitClient /\ MapperIdle /\ InitEngine /\ ProfilerIdle /\ QualityIdle
        /\ OutlierIdle /\ ChatIdle

SpecEngine == InitEngineSystem /\ [][NextEngine]_vars

NextProfiler ==
    CreateProfile /\ UNCHANGED <<clientVars, mapVars, tierVars, qualVars, outVars, chatVars>>

InitProfilerSystem ==
    InitClient /\ MapperIdle /\ TierIdle /\ InitProfiler /\ QualityIdle
        /\ OutlierIdle /\ ChatIdle

SpecProfiler == InitProfilerSystem /\ [][NextProfiler]_vars

NextQuality ==
    AssessQuality /\ UNCHANGED <<clientVars, mapVars, tierVars, profVars, outVars, chatVars>>

InitQualitySystem ==
    InitClient /\ MapperIdle /\ TierIdle /\ ProfilerIdle /\ InitQuality
        /\ OutlierIdle /\ ChatIdle

SpecQuality == InitQualitySystem /\ [][NextQuality]_vars

NextClient ==
    \/ Tick /\ UNCHANGED <<mapVars, tierVars, profVars, qualVars, outVars, chatVars>>
    \/ GenerateInsights /\ UNCHANGED <<mapVars, tierVars, profVars, qualVars, outVars, chatVars>>
    \/ Invoke /\ UNCHANGED <<mapVars, tierVars, profVars, qualVars, outVars, chatVars>>
    \/ Return /\ UNCHANGED <<mapVars, tierVars, profVars, qualVars, outVars, chatVars>>
    \/ ClearCache /\ UNCHANGED <<mapVars, tierVars, profVars, qualVars, outVars, chatVars>>
    \/ CallTask /\ UNCHANGED <<mapVars, tierVars, profVars, qualVars, outVars, chatVars>>
    \/ TaskInvoke /\ UNCHANGED <<mapVars, tierVars, profVars, qualVars, outVars, chatVars>>
    \/ TaskReturn /\ UNCHANGED <<mapVars, tierVars, profVars, qualVars, outVars, chatVars>>

InitClientSystem ==
    InitClient /\ MapperIdle /\ TierIdle /\ ProfilerIdle /\ QualityIdle
        /\ OutlierIdle /\ ChatIdle

\* the dispatcher and the handlers' calls of the shared insight client
NextDispatch ==
    \/ Tick /\ UNCHANGED <<mapVars, tierVars, profVars, qualVars, outVars, chatVars>>
    \/ RunAnalysis /\ UNCHANGED <<mapVars, tierVars, profVars, qualVars, outVars, chatVars>>
    \/ Invoke /\ UNCHANGED <<mapVars, tierVars, profVars, qualVars, outVars, chatVars>>
    \/ CustomFinish /\ UNCHANGED <<mapVars, tierVars, profVars, qualVars, outVars, chatVars>>
    \/ TopProductsFinish /\ UNCHANGED <<mapVars, tierVars, profVars, qualVars, outVars, chatVars>>
    \/ ForecastingFinish /\ UNCHANGED <<mapVars, tierVars, profVars, qualVars, outVars, chatVars>>
    \/ TaskInvoke /\ UNCHANGED <<mapVars, tierVars, profVars, qualVars, outVars, chatVars>>
    \/ SentimentFinish /\ UNCHANGED <<mapVars, tierVars, profVars, qualVars, outVars, chatVars>>
    \/ Answered /\ UNCHANGED <<mapVars, tierVars, profVars, qualVars, outVars, chatVars>>
    \/ ClearCache /\ UNCHANGED <<mapVars, tierVars, profVars, qualVars, outVars, chatVars>>

InitDispatchSystem ==
    InitClient /\ MapperIdle /\ TierIdle /\ ProfilerIdle /\ QualityIdle
        /\ OutlierIdle /\ ChatIdle

SpecDispatch == InitDispatchSystem /\ [][NextDispatch]_vars

NextOutlier ==
    CountOutliersCall
        /\ UNCHANGED <<clientVars, mapVars, tierVars, profVars, qualVars,
                     chatVars>>

InitOutlierSystem ==
    InitClient /\ MapperIdle /\ TierIdle /\ ProfilerIdle /\ QualityIdle
        /\ InitOutlier /\ ChatIdle

SpecOutlier == InitOutlierSystem /\ [][NextOutlier]_vars

NextChat ==
    \/ Upload
          /\ UNCHANGED <<clientVars, mapVars, tierVars, profVars, qualVars,
                         outVars>>
    \/ RenderInterface
          /\ UNCHANGED <<clientVars, mapVars, tierVars, profVars, qualVars,
                         outVars>>
    \/ InitializeSessionCall
          /\ UNCHANGED <<clientVars, mapVars, tierVars, profVars, qualVars,
                         outVars>>
    \/ Ask
          /\ UNCHANGED <<clientVars, mapVars, tierVars, profVars, qualVars,
                         outVars>>
    \/ ClearConversation
          /\ UNCHANGED <<clientVars, mapVars, tierVars, profVars, qualVars,
                         outVars>>

InitChatSystem ==
    InitClient /\ MapperIdle /\ TierIdle /\ ProfilerIdle /\ QualityIdle
        /\ OutlierIdle /\ InitChat

SpecChat == InitChatSystem /\ [][NextChat]_vars

SpecClient == InitClientSystem /\ [][NextClient]_vars

(* ===================== properties of the insight client ================ *)
AllFailed == invLog # << >> /\ \A i \in 1..Len(invLog) : ~invLog[i].ok

\* C1: a call whose model invocations all fail (each raises or yields empty
\* text) returns non-empty text, the static fallback.
C1_FallbackWhenAllFail ==
    (pc = "done" /\ AllFailed)
        => (ret.kind = "text" /\ ret.src = "fallback" /\ ret.text # << >>)

C1_Witness ==
    /\ pc = "done"
    /\ AllFailed
    /\ Len(invLog) = 9
    /\ req.domain = "retail"
    /\ ret.src = "fallback"

\* C2: generate_insights never raises and always returns text, for every
\* payload and every domain value, also one absent from business_context.
C2_NeverRaises == pc = "done" => ret.kind = "text"

SameArgs ==
    /\ last.valid
    /\ req.data = last.req.data
    /\ req.domain = last.req.domain
    /\ req.qt = last.req.qt

WithinTtl == req.at - last.req.at < cache_ttl

\* C3 as stated: two calls with identical arguments made within the TTL
\* return identical text and invoke a model at most once across both.
C3_Original ==
    (pc = "done" /\ SameArgs /\ WithinTtl)
        => /\ ret.kind = "text"
           /\ last.ret.kind = "text"
           /\ ret.text = last.ret.text
           /\ last.n + Len(invLog) <= 1

\* C3 amended: when the earlier of two calls with identical arguments was
\* answered by a model, a later call made less than the TTL after it (the
\* cache not cleared in between) returns the identical text and invokes no
\* model.
C3_CachedWithinTtl ==
    (pc = "done" /\ SameArgs /\ WithinTtl /\ last.ret.src = "model")
        => /\ ret.kind = "text"
           /\ ret.text = last.ret.text
           /\ invLog = << >>

C3_Witness ==
    /\ pc = "done"
    /\ SameArgs
    /\ WithinTtl
    /\ last.ret.src = "model"
    /\ last.n = 2
    /\ now > last.req.at
    /\ ret.src = "cache"

\* C4: one call makes at most 9 model invocations (3 roster entries times 3
\* attempts) whatever fails, and has returned once it made 9.
C4_AtMostNineAttempts ==
    /\ Len(invLog) <= 9
    /\ (Len(invLog) = 9 => pc = "done")

C4_Witness ==
    /\ pc = "done"
    /\ Len(invLog) = 9
    /\ req.qt = "custom_analysis"

\* C15: in one call each model is invoked at most 3 times, the models are
\* tried in the order selected model, secondary, fallback, and a later
\* model is invoked only after the model before it failed 3 times.
C15_RosterOrder ==
    LET selected == PrimaryModel(req.qt)
        Rank(m) == IF m = selected THEN 1
                   ELSE IF m = "secondary" THEN 2 ELSE 3
    IN /\ \A m \in ModelKeys :
             Cardinality({i \in 1..Len(invLog) : invLog[i].model = m}) <= 3
       /\ \A i, j \in 1..Len(invLog) :
             i < j => Rank(invLog[i].model) <= Rank(invLog[j].model)
       /\ \A i \in 2..Len(invLog) :
             invLog[i].model # invLog[i - 1].model
                => /\ i > 3
                   /\ \A k \in (i - 3)..(i - 1) :
                         /\ invLog[k].model = invLog[i - 1].model
                         /\ ~invLog[k].ok

\* C16: the static fallback text is returned only after the primary, the
\* secondary and the fallback model have each been attempted and have
\* failed in that call.
C16_FallbackAfterAllThree ==
    (pc = "done" /\ ret.src = "fallback") =>
        \A m \in ModelKeys :
            \E i \in 1..Len(invLog) : invLog[i].model = m /\ ~invLog[i].ok

\* C17: when the cache holds an unexpired entry for the key of the call,
\* generate_insights returns the stored text, invokes no model and leaves
\* the cache, the entry's timestamp included, as it was (the calls of
\* generate_insights are those whose caller is not a task method).
C17_HitLeavesCache ==
    [][(/\ pc = "idle"
        /\ caller' \notin TaskNames
        /\ cacheKey' # << >>
        /\ cacheKey' \in DOMAIN cache
        /\ now - cache[cacheKey'].time < cache_ttl)
          => /\ pc' = "done"
             /\ ret'.kind = "text"
             /\ ret'.text = cache[cacheKey'].text
             /\ invLog' = << >>
             /\ cache' = cache]_vars

C17_Witness ==
    /\ pc = "done"
    /\ ret.src = "cache"
    /\ invLog = << >>
    /\ cacheKey \in DOMAIN cache
    /\ cache[cacheKey].text = ret.text
    /\ cache[cacheKey].time = 1
    /\ now = 3600

\* C18: an entry is valid only while its age is below 3600 seconds; the
\* lookup of an entry aged 3600 seconds or more is a miss and deletes it;
\* an entry leaves the cache only by such a lookup of its own key, by
\* generate_insights or by a task method, or by clear_cache.
C18_LazyExpiry ==
    [][/\ (pc = "idle" /\ ret'.src = "cache")
             => (cacheKey' \in DOMAIN cache
                   /\ now - cache[cacheKey'].time < 3600)
       /\ (/\ pc = "idle"
           /\ cacheKey' # << >>
           /\ cacheKey' \in DOMAIN cache
           /\ now - cache[cacheKey'].time >= 3600)
             => (pc' \in {"call", "task"} /\ ret' = NoRet
                   /\ cacheKey' \notin DOMAIN cache')
       /\ \A k \in DOMAIN cache \ DOMAIN cache' :
             \/ (pc = "idle" /\ pc' = "idle" /\ cache' = << >>)
             \/ (pc = "idle" /\ k = cacheKey'
                   /\ now - cache[k].time >= 3600)]_vars

C18_Witness ==
    /\ pc = "call"
    /\ invLog = << >>
    /\ SameArgs
    /\ last.ret.src = "model"
    /\ last.req.at = 0
    /\ req.at = 3600
    /\ cacheKey \notin DOMAIN cache

\* C19: when a call misses the cache and a model returns non-empty text,
\* the text is stored under the key computed at lookup, stamped with the
\* current time, before the call returns it.
C19_AnswerCachedBeforeReturn ==
    (pc = "done" /\ ret.src = "model") =>
        /\ ret.text # << >>
        /\ invLog # << >>
        /\ cacheKey =
              GetCacheKey(BuildConsistentPrompt("insights_generation",
                                                req.data, req.domain).val,
                          ModelId(PrimaryModel(req.qt)),
                          <<req.domain, req.qt>>)
        /\ cacheKey \in DOMAIN cache
        /\ cache[cacheKey] = [time |-> now, text |-> ret.text]

C19_Witness ==
    /\ pc = "done"
    /\ ret.src = "model"
    /\ invLog[Len(invLog)].model = "fallback"
    /\ now > req.at
    /\ cache[cacheKey].time = now

\* C20: the static fallback text is assembled from the payload's numeric
\* fields: under one domain, two payloads with different numeric fields get
\* different fallback texts.
C20_FallbackReflectsPayload ==
    (/\ pc = "done"
     /\ last.valid
     /\ ret.src = "fallback"
     /\ last.ret.src = "fallback"
     /\ req.domain = last.req.domain
     /\ req.data # last.req.data)
        => ret.text # last.ret.text

\* C26: an entry of the cache holds text produced by the model named in
\* its key: when a model's answer is stored, the id in the key is the id
\* of the model that returned it.
C26_EntryFromKeyedModel ==
    (pc = "done" /\ ret.src = "model") =>
        /\ cache[cacheKey].text = ret.text
        /\ cacheKey[2] = ModelId(invLog[Len(invLog)].model)

\* C27 as stated: the static fallback text is never cached: a call in
\* which all model attempts fail leaves the cache unchanged, as the call
\* found it, with no entry under the key of the call.
C27_Original ==
    (pc = "done" /\ AllFailed)
        => (cache = cacheAtStart /\ cacheKey \notin DOMAIN cache)

\* C27: the static fallback text is never cached: a call in which all
\* model attempts fail adds no entry and alters none; the cache it leaves
\* is the cache it found less the entry under its own key, which was there
\* only if it had expired and the lookup of the call deleted it; its
\* attempts leave the cache as it was; and a call whose key has no entry
\* attempts the models, so a later identical call does not get the
\* fallback from the cache.
C27_FallbackNotCached ==
    [][/\ (pc = "call" /\ ret'.src # "model") => cache' = cache
       /\ (pc' = "done" /\ ret'.src = "fallback")
             => /\ cacheKey' \notin DOMAIN cache'
                /\ DOMAIN cache' = DOMAIN cacheAtStart' \ {cacheKey'}
                /\ \A k \in DOMAIN cache' : cache'[k] = cacheAtStart'[k]
                /\ cacheKey' \in DOMAIN cacheAtStart'
                      => req'.at - cacheAtStart'[cacheKey'].time
                            >= cache_ttl
       /\ (pc = "idle" /\ caller' \notin TaskNames /\ cacheKey' # << >>
              /\ cacheKey' \notin DOMAIN cache)
             => /\ pc' = "call"
                /\ modelIdx' = 1
                /\ cache' = cache]_vars

\* a call in which every attempt failed, made when the answer of an
\* earlier identical call had expired: the entry is gone, nothing is added
C27_Witness ==
    /\ pc = "done"
    /\ AllFailed
    /\ ret.src = "fallback"
    /\ SameArgs
    /\ last.ret.src = "model"
    /\ cacheKey \in DOMAIN cacheAtStart
    /\ cacheAtStart[cacheKey].text = last.ret.text
    /\ cache = << >>

\* a later identical call within the TTL of a call that ended with the
\* fallback attempts the models and is answered by one
LaterCallAttemptsModels ==
    /\ pc = "done"
    /\ SameArgs
    /\ WithinTtl
    /\ last.ret.src = "fallback"
    /\ invLog # << >>
    /\ ret.src = "model"

(* ===================== properties of the column mapper ================= *)
\* C5: the mapping auto_map_columns returns has pairwise distinct values:
\* no raw column is assigned to two canonical fields.
C5_DistinctValues ==
    mpc = "mapped" =>
        \A f, g \in DOMAIN mapping : f # g => mapping[f] # mapping[g]

\* C6: every value of the mapping is one of the raw column names, spelled
\* as in the header, and every key is a canonical field name.
C6_ValuesFromColumns ==
    mpc = "mapped" =>
        /\ DOMAIN mapping \subseteq CanonicalFields
        /\ \A f \in DOMAIN mapping :
              \E i \in 1..Len(mcols) : mcols[i] = mapping[f]

C6_Witness ==
    /\ mpc = "mapped"
    /\ "Date" \in DOMAIN mapping
    /\ mapping["Date"] = <<"T", "x", "n", "D", "a", "t", "e">>
    /\ "Product" \in DOMAIN mapping
    /\ mapping["Product"] = <<"S", "K", "U">>

\* C13: auto_map_columns returns a mapping for every header, the empty one
\* included, and every business type, one without patterns included; a
\* canonical field is in the mapping exactly when some column matches one
\* of its patterns, so the mapping may be partial or empty.
C13_PartialMappingNoFailure ==
    mpc = "mapped" =>
        LET PatternList(f) ==
                CASE f = "Date" -> PatternsFor(mfor, "date_patterns")
                  [] f = "Amount" -> PatternsFor(mfor, "amount_patterns")
                  [] f = "CustomerID" -> PatternsFor(mfor, "customer_patterns")
                  [] f = "Location" -> PatternsFor(mfor, "location_patterns")
                  [] f = "Product" -> product_keywords
            Matched(f) ==
                \E c \in 1..Len(mcols), p \in 1..Len(PatternList(f)) :
                    Contains(PatternList(f)[p], Lower(mcols[c]))
        IN /\ DOMAIN mapping \subseteq CanonicalFields
           /\ \A f \in CanonicalFields : f \in DOMAIN mapping <=> Matched(f)

C13_Witness ==
    /\ mpc = "mapped"
    /\ mfor = "general_business"
    /\ mcols = <<<<"f", "o", "o">>, <<"C", "i", "t", "y">>>>
    /\ DOMAIN mapping = {"Location"}

\* C14: for the header TxnDate, SKU, Total, Shopper and the retail domain
\* the mapper resolves Date to TxnDate, Amount to Total, Product to SKU and
\* CustomerID to Shopper.
C14_ShopHeaderResolved ==
    (mpc = "mapped" /\ mcols = ShopHeader /\ mfor = "retail") =>
        /\ DOMAIN mapping = {"Date", "Amount", "Product", "CustomerID"}
        /\ mapping["Date"] = ShopHeader[1]
        /\ mapping["Product"] = ShopHeader[2]
        /\ mapping["Amount"] = ShopHeader[3]
        /\ mapping["CustomerID"] = ShopHeader[4]

(* ==================== properties of the domain classifier ============== *)
\* C10: when no registered business type scores above 0 on the column
\* names, detect_business_type returns the general sentinel with
\* confidence 0.0 and not a registered type.
C10_SentinelWhenNoScore ==
    (/\ mpc = "detected"
     /\ \A i \in 1..Len(BusinessTypes) : TypeScore(BusinessTypes[i], mcols) = 0)
        => /\ mtype = "general_business"
           /\ mconf[1] = 0

(* ====================== properties of the capability gate ============== *)
\* C7: for a catalog domain determine_analysis_tier returns the highest
\* tier whose own required fields are all among the available fields, each
\* tier judged on its own (tier 3 covered without tier 2 still gives tier
\* 3), and tier1_essential only when neither tier 2 nor tier 3 is covered;
\* so when some tier is covered, the returned tier's fields are covered.
C7_HighestCoveredTier ==
    (tpc = "done" /\ tier_domain \in CatalogDomains) =>
        LET Covered(t) ==
                \A i \in 1..Len(TierFieldList(tier_domain, t)) :
                    TierFieldList(tier_domain, t)[i] \in tier_fields
        IN /\ Covered("tier3_advanced") => tier = "tier3_advanced"
           /\ (~Covered("tier3_advanced") /\ Covered("tier2_enhanced"))
                 => tier = "tier2_enhanced"
           /\ (~Covered("tier3_advanced") /\ ~Covered("tier2_enhanced"))
                 => tier = "tier1_essential"
           /\ (\E t \in TierNames : Covered(t)) => Covered(tier)

C7_Witness ==
    /\ tpc = "done"
    /\ tier_domain = "retail"
    /\ {"OrderID", "StoreID", "Gender", "Age", "Cost", "Inventory",
        "IsReturned", "Feedback"} \subseteq tier_fields
    /\ "Channel" \notin tier_fields
    /\ "Date" \notin tier_fields
    /\ tier = "tier3_advanced"

TierRank(t) ==
    CASE t = "tier1_essential" -> 1
      [] t = "tier2_enhanced" -> 2
      [] t = "tier3_advanced" -> 3

\* C21: analyze_data, called without a tier, computes the tier from the
\* canonical field names that were mapped: when the mapping's keys cover the
\* required fields of tier T of the domain, the tier is at least T, whatever
\* the raw column names are.
C21_TierFromMappedFields ==
    (tpc = "analyzed" /\ tier_domain \in CatalogDomains
        /\ tier_arg = "" /\ tier_mapping # << >>) =>
        \A t \in TierNames :
            (\A i \in 1..Len(TierFieldList(tier_domain, t)) :
                TierFieldList(tier_domain, t)[i] \in DOMAIN tier_mapping)
               => TierRank(tier) >= TierRank(t)

\* C30: the tier is monotone in the fields: taking one field away from the
\* available fields never gives a higher tier (so, field by field, the
\* tier for a subset is never above the tier for the set).
C30_TierMonotone ==
    (tpc = "done" /\ tier_domain \in CatalogDomains) =>
        \A f \in tier_fields :
            TierRank(DetermineAnalysisTier(tier_domain, tier_fields \ {f}))
                <= TierRank(tier)

C30_Witness ==
    /\ tpc = "done"
    /\ tier_domain = "retail"
    /\ tier = "tier3_advanced"
    /\ "Date" \notin tier_fields
    /\ DetermineAnalysisTier(tier_domain, tier_fields \ {"Feedback"})
          = "tier2_enhanced"

\* C22: a canonical field that no pattern matches is mapped by fuzzy
\* similarity to the best raw column scoring at least 0.6. A raw column
\* whose lower-cased name equals the lower-cased field name scores 1.0, so
\* such a field is never left unmapped.
C22_FuzzyFallback ==
    mpc = "mapped" =>
        \A f \in CanonicalFields :
            (/\ Candidates(mcols, mfor, f) = << >>
             /\ \E i \in 1..Len(mcols) : Lower(mcols[i]) = FieldLower(f))
                => f \in DOMAIN mapping

(* ======================= quartiles and fences ========================== *)
\* the k-th smallest value of a series
OrderStatistic(series, k) ==
    CHOOSE v \in {series[i] : i \in 1..Len(series)} :
        /\ Cardinality({i \in 1..Len(series) : series[i] < v}) < k
        /\ k <= Cardinality({i \in 1..Len(series) : series[i] <= v})

\* four times the quartile q/4: the weighted mean of the two order
\* statistics around position (n - 1) * q / 4
Quartile4(series, q) ==
    LET k == ((Len(series) - 1) * q) \div 4
        r == ((Len(series) - 1) * q) % 4
    IN IF r = 0 THEN 4 * OrderStatistic(series, k + 1)
       ELSE (4 - r) * OrderStatistic(series, k + 1)
                + r * OrderStatistic(series, k + 2)

\* the positions of the values outside the Tukey fences Q1 - 1.5 IQR and
\* Q3 + 1.5 IQR (q1 and q3 are four times the quartiles)
TukeyOutliers(series) ==
    IF series = << >> THEN {}
    ELSE LET q1 == Quartile4(series, 1)
             q3 == Quartile4(series, 3)
         IN {i \in 1..Len(series) :
                \/ 8 * series[i] < 2 * q1 - 3 * (q3 - q1)
                \/ 8 * series[i] > 2 * q3 + 3 * (q3 - q1)}

\* the values of column c of a frame that are not null, when the column
\* has at least 4 cells (a shorter column is not examined)
ColumnValues(df, c) ==
    LET present == SelectSeq([i \in 1..Len(df.data) |-> df.data[i][c]],
                             LAMBDA x : ~x.null)
    IN IF Len(df.data) < 4 THEN << >>
       ELSE [i \in 1..Len(present) |-> present[i].v]

(* ======================= properties of the data profiler =============== *)
\* C11: create_comprehensive_profile is cached by (business type, row
\* count, hash of the column names): a call with the dataset and business
\* type of an earlier call returns the profile that call stored, timestamp
\* included, without computing, and a call whose business type, row count
\* or column names differ from every earlier call computes a new profile.
C11_ProfileCachedByFingerprint ==
    \A j \in 1..Len(plog) :
        /\ \A i \in 1..(j - 1) :
              (plog[i].df = plog[j].df
                  /\ plog[i].business_type = plog[j].business_type)
                 => /\ ~plog[j].computed
                    /\ plog[j].profile = plog[i].profile
        /\ (\A i \in 1..(j - 1) :
               \/ plog[i].business_type # plog[j].business_type
               \/ Len(plog[i].df.data) # Len(plog[j].df.data)
               \/ plog[i].df.cols # plog[j].df.cols)
              => /\ plog[j].computed
                 /\ plog[j].profile.business_type = plog[j].business_type
                 /\ plog[j].profile.total_rows = Len(plog[j].df.data)
                 /\ plog[j].profile.column_names = plog[j].df.cols

C11_Witness ==
    /\ Len(plog) = 3
    /\ plog[1].df = plog[3].df
    /\ plog[1].business_type = plog[3].business_type
    /\ plog[2].df = plog[1].df
    /\ plog[2].business_type # plog[1].business_type
    /\ plog[2].computed
    /\ ~plog[3].computed
    /\ plog[3].profile.timestamp = 0
    /\ pclock = 2

\* C25: the profile a call returns describes the dataset of that call: its
\* statistics are the ones computed from that dataset, also when a dataset
\* of the same business type, row count and column names was profiled
\* before.
C25_ProfileDescribesDataset ==
    \A j \in 1..Len(plog) :
        /\ plog[j].profile.total_rows = Len(plog[j].df.data)
        /\ plog[j].profile.column_names = plog[j].df.cols
        /\ plog[j].profile.missing_cells = NullCells(plog[j].df)
        /\ plog[j].profile.duplicate_rows = DuplicatedRows(plog[j].df)
        /\ plog[j].profile.data_quality = AssessDataQuality(plog[j].df)

\* C12: the quality score is 100, less 20 when the null ratio is strictly
\* above 10%, less 15 when the duplicate-row ratio is strictly above 5%,
\* less 10 (once) when some numeric column has more than 5% outliers; a
\* ratio at the threshold deducts nothing and the score is in 0..100.
C12_QualityScore ==
    qpc = "done" =>
        LET rows == Len(qframe.data)
            cells == rows * Len(qframe.cols)
            nullDeduct ==
                IF cells > 0 /\ 10 * NullCells(qframe) > cells
                THEN 20 ELSE 0
            dupDeduct ==
                IF rows > 0 /\ 20 * DuplicatedRows(qframe) > rows
                THEN 15 ELSE 0
            outDeduct ==
                IF \E c \in 1..Len(qframe.cols) :
                       20 * Cardinality(TukeyOutliers(
                               ColumnValues(qframe, c))) > rows
                THEN 10 ELSE 0
        IN /\ quality.quality_score = 100 - nullDeduct - dupDeduct - outDeduct
           /\ quality.quality_score \in 0..100

C12_Witness ==
    /\ qpc = "done"
    /\ Len(qframe.data) = 40
    /\ Len(qframe.cols) = 2
    /\ NullCells(qframe) = 8
    /\ DuplicatedRows(qframe) = 3
    /\ \A c \in 1..2 : CountOutliers(qframe, c) = 3
    /\ quality.quality_score = 75

\* C23: the recommendations correspond one-to-one to the issues: there are
\* as many recommendations as issues (none when nothing was deducted) and
\* the i-th recommendation is the one fixed for the i-th issue.
C23_RecommendationPerIssue ==
    qpc = "done" =>
        /\ Len(quality.recommendations) = Len(quality.issues)
        /\ \A i \in 1..Len(quality.issues) :
              i \in 1..Len(quality.recommendations)
                 => <<quality.recommendations[i]>>
                        = RecommendationsFor(quality.issues[i])

(* ======================= properties of the outlier count ============== *)
\* C24: the count is the number of values strictly below Q1 - 1.5 IQR or
\* strictly above Q3 + 1.5 IQR, quartiles by linear interpolation, also for
\* a series of fewer than 4 values, where it is 0; the example series has
\* one outlier, the value 500.
C24_TukeyCount ==
    opc = "counted" =>
        /\ ocount = Cardinality(TukeyOutliers(oseries))
        /\ Len(oseries) < 4 => ocount = 0
        /\ oseries = ExampleSeries =>
              /\ ocount = 1
              /\ \A i \in TukeyOutliers(oseries) : oseries[i] = 500

C24_Witness ==
    /\ opc = "counted"
    /\ oseries = ExampleSeries
    /\ ocount = 1

(* ======================= properties of the chatbot ==================== *)
\* C28: after a new dataset is stored as the uploaded data the chatbot
\* answers from a profile of it: following initialize_session(df, type) the
\* data context is the profile of df, and once the chat page is rendered
\* the data context is the profile of the uploaded dataset.
C28_ContextOfNewDataset ==
    /\ init_args.called =>
          genie_data_context = ChatProfile(init_args.df, init_args.business_type)
    /\ chat_pc = "ready" => genie_data_context.dataset = uploaded

\* C29: the conversation history strictly alternates user and assistant
\* entries, starting with a user entry, and every user entry has its
\* assistant entry, after any sequence of process_question and
\* clear_conversation calls, one that raises included.
C29_HistoryAlternates ==
    /\ \A i \in 1..Len(conversation_history) :
          conversation_history[i].type =
              (IF i % 2 = 1 THEN "user" ELSE "assistant")
    /\ Len(conversation_history) % 2 = 0

(* ======================= properties of the dispatcher ================== *)
\* C8: a question whose id is not registered is answered by the generic
\* custom handler with a non-empty summary and no exception, whether the
\* insight client returned text or raised.
C8_UnregisteredAnswered ==
    /\ (pc = "answered" /\ disp.qid \notin RegisteredIds)
          => /\ disp.kind = "result"
             /\ disp.handler = "custom_question"
             /\ disp.summary # << >>

C8_Witness ==
    /\ pc = "answered"
    /\ disp.qid \notin RegisteredIds
    /\ disp.kind = "result"
    /\ disp.via = "basic"

\* C9: every question id, registered or not (the id custom_question
\* included), gets a result from the dispatcher and no exception.
C9_EveryIdAnswered == pc = "answered" => disp.kind = "result"

====
